---- MODULE Spec2Model ----
(***************************************************************************)
(* Model of the Scenario execution engine of flagpole (src/src/scenario.ts) *)
(* One Scenario: its configuration calls, its control calls (execute,       *)
(* skip, cancel), the asynchronous steps of its lifecycle (hook lists,      *)
(* fetch adapter, pipe hooks, assertion phases, completion) and its log.    *)
(***************************************************************************)
EXTENDS Integers, Sequences, FiniteSets, TLC

VARIABLES
    url,                    \* _request.uri
    isMock,                 \* _isMock
    responseType,           \* _responseType
    waitToExecute,          \* _waitToExecute
    waitTime,               \* _waitTime (0, or 1 for any positive duration)
    timeScenarioExecuted,   \* _timeScenarioExecuted (Null or Stamp)
    timeRequestStarted,     \* _timeRequestStarted
    timeRequestLoaded,      \* _timeRequestLoaded
    timeScenarioFinished,   \* _timeScenarioFinished
    nextCallbacks,          \* _nextCallbacks with _nextMessages
    beforeCallbacks,        \* _beforeCallbacks
    afterCallbacks,         \* _afterCallbacks
    successCallbacks,       \* _successCallbacks
    failureCallbacks,       \* _failureCallbacks
    finallyCallbacks,       \* _finallyCallbacks
    pipeCallbacks,          \* _pipeCallbacks
    log,                    \* _log.items
    finishedResolved,       \* _finishedResolve() has been called
    stage,                  \* position of the lifecycle coroutine
    mode,                   \* which control call started the lifecycle
    runList,                \* the callback list mapSeries is iterating
    runIdx,                 \* number of callbacks of runList already invoked
    hookRunning,            \* the invoked callback has not settled yet
    errorMessage,           \* errorMessage argument of _markScenarioCompleted
    errorDetails,           \* errorDetails argument of _markScenarioCompleted
    retPending,             \* the phase's returned promise has not settled
    assertionsPending,      \* assertions started by the phase, not resolved
    subsPending,            \* sub-scenarios spawned by the phase, not finished
    skipMessage,            \* message argument of skip()
    httpResponse,           \* httpResponse of _processResponse and the pipes
    thrown,                 \* error thrown by the last call ("" when none)
    title,                  \* _title
    dependency,             \* the Scenario named in waitFor: its success hooks
    scenarios,              \* Suite.scenarios, in creation order
    byTag,                  \* Suite.byTag
    flipAssertion,          \* GenericResponse.flipAssertion
    optionalAssertion,      \* GenericResponse.optionalAssertion
    ignoreAssertion,        \* GenericResponse.ignoreAssertion
    input,                  \* Value._input of the source Value
    output,                 \* what the last call on the Value returned
    trace                   \* history of the observable events, in order

config == <<url, isMock, responseType, waitToExecute, waitTime>>
times == <<timeScenarioExecuted, timeRequestStarted, timeRequestLoaded,
           timeScenarioFinished>>
hooks == <<beforeCallbacks, afterCallbacks, successCallbacks,
           failureCallbacks, finallyCallbacks, pipeCallbacks>>
runner == <<stage, mode, runList, runIdx, hookRunning, errorMessage,
            errorDetails, skipMessage>>
work == <<retPending, assertionsPending, subsPending>>
suiteVars == <<scenarios, byTag>>
valueVars == <<input, output>>
responseVars == <<flipAssertion, optionalAssertion, ignoreAssertion>>
vars == <<config, times, nextCallbacks, hooks, log, finishedResolved, runner,
          work, thrown, trace, title, dependency, httpResponse, suiteVars,
          valueVars, responseVars>>

\* ------------------------------------------------------------------ bounds
MaxPhases == 2          \* phases registered on the Scenario
MaxHooks == 1           \* callbacks registered on each hook list
MaxAssertions == 1      \* assertions started by the phases of the Scenario
MaxSubScenarios == 1    \* sub-scenarios spawned by one phase
MaxSegments == 2        \* path segments of a target
MaxScenarios == 2       \* Scenarios created in the Suite
MaxTags == 2            \* tags given to one Scenario of the Suite
MaxArray == 2           \* callbacks in the array of one registration call
MaxLen == 2             \* elements of the array a Value holds
MaxNumber == 2          \* the numbers in the array of a Value are 0..MaxNumber
MaxResponseCalls == 4   \* calls made on one GenericResponse

\* --------------------------------------------------------------- constants
Null == "null"
Stamp == "set"
NoError == ""
NoMessage == ""
PhaseTimeoutMs == 30000

Targets == {"/a/1"}
\* targets with {param} placeholders, as open() accepts them
TemplateTargets == {"/a/1", "/a/{id}", "/{id}/{id}"}
SegmentNames == {"a", "1", "{id}"}
ParamNames == {"id"}
BaseUrl == "http://h"
Labels == {NoMessage, "label"}
ResponseTypes == {"html", "browser"}
NoParams == "none"
PathParams == {NoParams}
\* the pathParams argument of execute(): none, or one with the key "id"
TemplateParams == {NoParams} \cup ParamNames
\* values a phase callback can throw or reject with: a message, or no reason
\* at all (throw undefined, Promise.reject())
Undefined == "undefined"
ThrownValues == {"phase error", Undefined}
TimeoutError == "TimeoutError: operation timed out"
FetchError == "ECONNREFUSED"
\* the response the adapter resolves with, and the one a pipe hook returns
AdapterResponse == "response"
Piped(id) == "piped " \o ToString(id)

\* ------------------------------------------------------------ log entries
Item(type, message) == [type |-> type, message |-> message]
Event(ev, id, text) == [ev |-> ev, id |-> id, text |-> text]
LogEvents(items) == [i \in DOMAIN items |->
                        Event(items[i].type, 0, items[i].message)]
Publish(statusEvent) == Event("publish", 0, statusEvent)

\* the array a Value holds: numbers, or rows with the property k
NoKey == ""
Keys == {NoKey, "k"}
Rows == [k : 0..MaxNumber]
NumberInputs ==
    UNION {[rows : {FALSE}, items : [1..n -> 0..MaxNumber]] : n \in 0..MaxLen}
RowInputs ==
    UNION {[rows : {TRUE}, items : [1..n -> Rows]] : n \in 1..MaxLen}
NoInput == [rows |-> FALSE, items |-> <<>>]
NoOutput == [op |-> "none", key |-> NoKey, data |-> Null]

\* ---------------------------------------------------------------- getters
hasExecuted == timeScenarioExecuted # Null
hasFinished == hasExecuted /\ timeScenarioFinished # Null
hasRequestStarted == timeRequestStarted # Null
hasFailed == \E i \in DOMAIN log : log[i].type = "resultFailure"
hasPassed == hasFinished /\ ~hasFailed
\* a path is the string of its segments; the regular expressions and
\* String.replace of the source read it segment by segment
RECURSIVE Join(_)
Join(segments) ==
    IF segments = <<>> THEN ""
    ELSE "/" \o Head(segments) \o Join(Tail(segments))
Templates == UNION {[1..n -> SegmentNames] : n \in 1..MaxSegments}
IsPath(u) == \E s \in Templates : Join(s) = u
Split(u) == CHOOSE s \in Templates : Join(s) = u
Placeholder(key) == "{" \o key \o "}"
\* String(pathParams[key])
ParamValue(key) == "1"
\* /{[A-Za-z0-9_ -]+}/.test(u)
HasParam(u) ==
    /\ IsPath(u)
    /\ \E i \in DOMAIN Split(u), key \in ParamNames :
          Split(u)[i] = Placeholder(key)
isImplicitWait == url = Null \/ HasParam(url)
isExplicitWait == waitToExecute
hasNextCallbacks == Len(nextCallbacks) > 0
isReadyToExecute ==
    /\ ~hasExecuted
    /\ ~isImplicitWait
    /\ ~isExplicitWait
    /\ hasNextCallbacks
ReadyAfter_NoPhases(u) ==
    /\ ~hasExecuted
    /\ ~(u = Null \/ HasParam(u))

\* isReadyToExecute as execute() reads it, after it has replaced the path
\* parameters (the target is then u) and cleared the wait flag
ReadyAfter(u) ==
    /\ ~hasExecuted
    /\ ~(u = Null \/ HasParam(u))
    /\ hasNextCallbacks

ReplaceParam_Keep(u, key) == u

\* String.replace of the placeholder {key} by the parameter's value: a
\* string pattern replaces the first occurrence only
ReplaceParam(u, key) ==
    IF ~IsPath(u) THEN u
    ELSE LET s == Split(u)
             hits == {i \in DOMAIN s : s[i] = Placeholder(key)}
         IN IF hits = {} THEN u
            ELSE LET first == CHOOSE i \in hits : \A j \in hits : i <= j
                 IN Join([i \in DOMAIN s |->
                            IF i = first THEN ParamValue(key) ELSE s[i]])
\* a path that starts with / is joined to the origin of the suite's base URL,
\* an absolute URL is kept
buildUrl(path) == IF IsPath(path) THEN BaseUrl \o path ELSE path
isBrowser == responseType \in {"browser", "extjs"}
Adapter == IF isMock THEN "mock" ELSE IF isBrowser THEN "browser" ELSE "default"

HookTotal == Len(beforeCallbacks) + Len(afterCallbacks) + Len(successCallbacks)
             + Len(failureCallbacks) + Len(finallyCallbacks) + Len(pipeCallbacks)

Init ==
    /\ url = Null
    /\ isMock = FALSE
    /\ responseType = "html"
    /\ waitToExecute = FALSE
    /\ waitTime = 0
    /\ timeScenarioExecuted = Null
    /\ timeRequestStarted = Null
    /\ timeRequestLoaded = Null
    /\ timeScenarioFinished = Null
    /\ nextCallbacks = <<>>
    /\ beforeCallbacks = <<>>
    /\ afterCallbacks = <<>>
    /\ successCallbacks = <<>>
    /\ failureCallbacks = <<>>
    /\ finallyCallbacks = <<>>
    /\ pipeCallbacks = <<>>
    /\ log = <<>>
    /\ finishedResolved = FALSE
    /\ stage = "idle"
    /\ mode = "none"
    /\ runList = <<>>
    /\ runIdx = 0
    /\ hookRunning = FALSE
    /\ errorMessage = Null
    /\ errorDetails = Undefined
    /\ retPending = FALSE
    /\ assertionsPending = 0
    /\ subsPending = 0
    /\ skipMessage = NoMessage
    /\ thrown = NoError
    /\ trace = <<>>
    /\ title = "title"
    /\ dependency = "none"
    /\ scenarios = <<>>
    /\ byTag = <<>>
    /\ httpResponse = Null
    /\ flipAssertion = FALSE
    /\ optionalAssertion = FALSE
    /\ ignoreAssertion = FALSE
    /\ input = NoInput
    /\ output = NoOutput

AlreadyExecuting ==
    "Scenario has already started executing. Can not call execute again."
CanNotSkip == "Can't skip Scenario since it already started executing."
CanNotCancel == "Can't cancel Scenario since it already started executing."

TitleFrozen ==
    "Can not change the scenario's title after execution has started."
TypeFrozen == "Scenario was already executed. Can not change type."
UrlFrozen == "Can not change the URL after the request has already started."
OpenFrozen == "Can call open after scenario has executed"
CanNotWaitForItself == "Scenario can't wait for itself"

\* a call that throws: nothing changes, the caller gets the error
Throw(message) ==
    /\ thrown' = message
    /\ UNCHANGED <<title, dependency, httpResponse, suiteVars, valueVars, responseVars>>
    /\ UNCHANGED <<config, times, nextCallbacks, hooks, log, finishedResolved,
                   runner, work, trace>>

\* --------------------------------------------------- configuration calls
\* wait(bool)
wait(bool) ==
    /\ waitTime' = IF waitToExecute /\ ~bool THEN 1 ELSE waitTime
    /\ waitToExecute' = bool
    /\ thrown' = NoError
    /\ UNCHANGED <<title, dependency, httpResponse, suiteVars, valueVars, responseVars>>
    /\ UNCHANGED <<url, isMock, responseType, times, nextCallbacks, hooks, log,
                   finishedResolved, runner, work, trace>>

SetTitle_NoGuard(newTitle) ==
    /\ title' = newTitle
    /\ thrown' = NoError
    /\ UNCHANGED <<config, times, nextCallbacks, hooks, log, finishedResolved,
                   runner, work, trace, dependency, httpResponse,
                   suiteVars, valueVars, responseVars>>

\* set title(newTitle)
SetTitle(newTitle) ==
    IF hasExecuted
    THEN Throw(TitleFrozen)
    ELSE /\ title' = newTitle
         /\ thrown' = NoError
         /\ UNCHANGED <<config, times, nextCallbacks, hooks, log,
                        finishedResolved, runner, work, trace, dependency,
                        httpResponse, suiteVars, valueVars, responseVars>>

\* waitFor(thatScenario): wait(), and a success hook on that Scenario
waitFor(thatScenario) ==
    IF thatScenario = "this"
    THEN Throw(CanNotWaitForItself)
    ELSE /\ waitToExecute' = TRUE
         /\ dependency' = "pending"
         /\ thrown' = NoError
         /\ UNCHANGED <<url, isMock, responseType, waitTime, times,
                        nextCallbacks, hooks, log, finishedResolved, runner,
                        work, trace, title, httpResponse, suiteVars,
                        valueVars, responseVars>>

\* that Scenario passes and runs the success hook of waitFor: wait(false)
DependencySucceeds ==
    /\ dependency = "pending"
    /\ dependency' = "succeeded"
    /\ waitTime' = IF waitToExecute THEN 1 ELSE waitTime
    /\ waitToExecute' = FALSE
    /\ thrown' = NoError
    /\ UNCHANGED <<url, isMock, responseType, times, nextCallbacks, hooks, log,
                   finishedResolved, runner, work, trace, title, httpResponse,
                   suiteVars, valueVars, responseVars>>

\* set url(value), followed by the assignment of _isMock made by the caller
SetUrl(value, mock) ==
    IF hasRequestStarted
    THEN Throw(UrlFrozen)
    ELSE /\ url' = value
         /\ waitToExecute' = (waitToExecute \/ HasParam(value))
         /\ isMock' = mock
         /\ thrown' = NoError
         /\ UNCHANGED <<title, dependency, httpResponse, suiteVars, valueVars, responseVars>>
         /\ UNCHANGED <<responseType, waitTime, times, nextCallbacks, hooks,
                        log, finishedResolved, runner, work, trace>>

open(u) ==
    IF hasExecuted
    THEN Throw(OpenFrozen)
    ELSE SetUrl(u, FALSE)

mock(localPath) == SetUrl(localPath, TRUE)

setResponseType(type) ==
    IF hasExecuted
    THEN Throw(TypeFrozen)
    ELSE /\ responseType' = type
         /\ thrown' = NoError
         /\ UNCHANGED <<title, dependency, httpResponse, suiteVars, valueVars, responseVars>>
         /\ UNCHANGED <<url, isMock, waitToExecute, waitTime, times,
                        nextCallbacks, hooks, log, finishedResolved, runner,
                        work, trace>>

\* _next(a, b, append)
next(message, append) ==
    /\ hasFinished \/ Len(nextCallbacks) < MaxPhases
    /\ IF ~hasFinished
       THEN LET cb == [id |-> Len(nextCallbacks) + 1, message |-> message,
                       callback |-> "cb1"]
            IN /\ nextCallbacks' = IF append THEN Append(nextCallbacks, cb)
                                   ELSE <<cb>> \o nextCallbacks
               /\ thrown' = NoError
               /\ UNCHANGED <<title, dependency, httpResponse, suiteVars, valueVars, responseVars>>
               /\ UNCHANGED <<config, times, hooks, log, finishedResolved,
                              runner, work, trace>>
       ELSE Throw("Scenario already finished.")

\* the arguments of a registration call: labels (strings) and callbacks
LabelArgs == {"label", " "}
CallbackArgs == {"cb1", "cb2"}
NoCallback == "No callback provided."
AlreadyFinished == "Scenario already finished."
\* _getCallbackOverload(a, b)
CallbackOverload(a, b) ==
    IF b \in CallbackArgs THEN b
    ELSE IF a \in CallbackArgs THEN a
    ELSE Undefined
\* _getMessageOverload(a): null unless a is a string that is not blank
MessageOverload(a) == IF a \in LabelArgs /\ a # " " THEN a ELSE NoMessage
\* the parameters a and b of the implementation receive the first two
\* arguments of the call
ArgA(args) == args[1]
ArgB(args) == IF Len(args) >= 2 THEN args[2] ELSE Undefined

\* next(...args) and nextPrepend(...args): _next(a, b, append)
nextArgs(args, append) ==
    /\ hasFinished \/ Len(nextCallbacks) < MaxPhases
    /\ IF CallbackOverload(ArgA(args), ArgB(args)) = Undefined
       THEN Throw(NoCallback)
       ELSE IF hasFinished
       THEN Throw(AlreadyFinished)
       ELSE LET cb == [id |-> Len(nextCallbacks) + 1,
                       message |-> MessageOverload(ArgA(args)),
                       callback |-> CallbackOverload(ArgA(args), ArgB(args))]
            IN /\ nextCallbacks' = IF append THEN Append(nextCallbacks, cb)
                                   ELSE <<cb>> \o nextCallbacks
               /\ thrown' = NoError
               /\ UNCHANGED <<title, dependency, httpResponse, suiteVars, valueVars, responseVars>>
               /\ UNCHANGED <<config, times, hooks, log, finishedResolved,
                              runner, work, trace>>

HookNames == {"before", "after", "success", "failure", "finally", "pipe"}
CallbacksOf(name) ==
    CASE name = "before" -> beforeCallbacks
      [] name = "after" -> afterCallbacks
      [] name = "success" -> successCallbacks
      [] name = "failure" -> failureCallbacks
      [] name = "finally" -> finallyCallbacks
      [] name = "pipe" -> pipeCallbacks

CanNotAdd(name) ==
    "Can not add " \o name \o " callbacks after execution has finished."

\* the list named name with the callback cb pushed
Pushed(name, cb) ==
    /\ beforeCallbacks' = IF name = "before" THEN Append(beforeCallbacks, cb)
                          ELSE beforeCallbacks
    /\ afterCallbacks' = IF name = "after" THEN Append(afterCallbacks, cb)
                         ELSE afterCallbacks
    /\ successCallbacks' = IF name = "success"
                           THEN Append(successCallbacks, cb)
                           ELSE successCallbacks
    /\ failureCallbacks' = IF name = "failure"
                           THEN Append(failureCallbacks, cb)
                           ELSE failureCallbacks
    /\ finallyCallbacks' = IF name = "finally"
                           THEN Append(finallyCallbacks, cb)
                           ELSE finallyCallbacks
    /\ pipeCallbacks' = IF name = "pipe" THEN Append(pipeCallbacks, cb)
                        ELSE pipeCallbacks

pushArgs_NoGuard(name, args) ==
    /\ Len(CallbacksOf(name)) < MaxHooks
    /\ IF CallbackOverload(ArgA(args), ArgB(args)) = Undefined
       THEN Throw(NoCallback)
       ELSE /\ Pushed(name,
                      [id |-> Len(CallbacksOf(name)) + 1,
                       message |-> MessageOverload(ArgA(args)),
                       callback |-> CallbackOverload(ArgA(args), ArgB(args))])
            /\ thrown' = NoError
            /\ UNCHANGED <<title, dependency, httpResponse, suiteVars, valueVars, responseVars>>
            /\ UNCHANGED <<config, times, nextCallbacks, log,
                           finishedResolved, runner, work, trace>>

\* before(...args), after, success, failure, finally, pipe:
\* _pushCallbacks(name, callbacksName, a, b)
pushArgs(name, args) ==
    /\ hasFinished \/ Len(CallbacksOf(name)) < MaxHooks
    /\ IF hasFinished
       THEN Throw(CanNotAdd(name))
       ELSE IF CallbackOverload(ArgA(args), ArgB(args)) = Undefined
       THEN Throw(NoCallback)
       ELSE /\ Pushed(name,
                      [id |-> Len(CallbacksOf(name)) + 1,
                       message |-> MessageOverload(ArgA(args)),
                       callback |-> CallbackOverload(ArgA(args), ArgB(args))])
            /\ thrown' = NoError
            /\ UNCHANGED <<title, dependency, httpResponse, suiteVars, valueVars, responseVars>>
            /\ UNCHANGED <<config, times, nextCallbacks, log,
                           finishedResolved, runner, work, trace>>

\* before(callbacks), after, success, failure, finally, pipe with an array:
\* _pushCallbacks pushes every callback of the array with the message ""
pushArray(name, callbacks) ==
    /\ hasFinished \/ Len(CallbacksOf(name)) < MaxHooks
    /\ IF hasFinished
       THEN Throw(CanNotAdd(name))
       ELSE LET cbs == [i \in DOMAIN callbacks |->
                          [id |-> Len(CallbacksOf(name)) + i,
                           message |-> NoMessage, callback |-> callbacks[i]]]
                Push(n, list) == IF n = name THEN list \o cbs ELSE list
            IN /\ beforeCallbacks' = Push("before", beforeCallbacks)
               /\ afterCallbacks' = Push("after", afterCallbacks)
               /\ successCallbacks' = Push("success", successCallbacks)
               /\ failureCallbacks' = Push("failure", failureCallbacks)
               /\ finallyCallbacks' = Push("finally", finallyCallbacks)
               /\ pipeCallbacks' = Push("pipe", pipeCallbacks)
               /\ thrown' = NoError
               /\ UNCHANGED <<title, dependency, httpResponse, suiteVars, valueVars, responseVars>>
               /\ UNCHANGED <<config, times, nextCallbacks, log,
                              finishedResolved, runner, work, trace>>

\* promise(): the executor calls success(resolve) and failure(reject); an
\* error thrown by them rejects the new promise
promise ==
    /\ hasFinished \/ Len(successCallbacks) < MaxHooks
    /\ hasFinished \/ Len(failureCallbacks) < MaxHooks
    /\ thrown' = NoError
    /\ UNCHANGED <<title, dependency, httpResponse, suiteVars, valueVars, responseVars>>
    /\ UNCHANGED <<config, times, nextCallbacks, beforeCallbacks,
                   afterCallbacks, finallyCallbacks, pipeCallbacks, log,
                   finishedResolved, runner, work>>
    /\ IF hasFinished
       THEN /\ trace' = Append(trace,
                               Event("executor", 0, CanNotAdd("success")))
            /\ UNCHANGED <<successCallbacks, failureCallbacks>>
       ELSE /\ successCallbacks' =
                  Append(successCallbacks,
                         [id |-> Len(successCallbacks) + 1,
                          message |-> NoMessage, callback |-> "resolve"])
            /\ failureCallbacks' =
                  Append(failureCallbacks,
                         [id |-> Len(failureCallbacks) + 1,
                          message |-> NoMessage, callback |-> "reject"])
            /\ UNCHANGED trace

\* _pushCallbacks(name, callbacksName, a, b)
pushCallbacks(name, message) ==
    /\ Len(CallbacksOf(name)) < MaxHooks
    /\ IF hasFinished
       THEN Throw(CanNotAdd(name))
       ELSE LET cb == [id |-> Len(CallbacksOf(name)) + 1, message |-> message,
                       callback |-> "cb1"]
                Push(n, list) == IF n = name THEN Append(list, cb) ELSE list
            IN /\ beforeCallbacks' = Push("before", beforeCallbacks)
               /\ afterCallbacks' = Push("after", afterCallbacks)
               /\ successCallbacks' = Push("success", successCallbacks)
               /\ failureCallbacks' = Push("failure", failureCallbacks)
               /\ finallyCallbacks' = Push("finally", finallyCallbacks)
               /\ pipeCallbacks' = Push("pipe", pipeCallbacks)
               /\ thrown' = NoError
               /\ UNCHANGED <<title, dependency, httpResponse, suiteVars, valueVars, responseVars>>
               /\ UNCHANGED <<config, times, nextCallbacks, log,
                              finishedResolved, runner, work, trace>>

\* ---------------------------------------------------------- control calls
\* _markExecutionAsStarted followed by _fireBefore: the before list starts
StartBefore_NoMark(m, message) ==
    /\ stage' = "before"
    /\ mode' = m
    /\ skipMessage' = message
    /\ runList' = beforeCallbacks
    /\ runIdx' = 0
    /\ hookRunning' = FALSE
    /\ UNCHANGED <<timeScenarioExecuted, errorMessage, errorDetails>>

StartBefore(m, message) ==
    /\ timeScenarioExecuted' = Stamp
    /\ stage' = "before"
    /\ mode' = m
    /\ skipMessage' = message
    /\ runList' = beforeCallbacks
    /\ runIdx' = 0
    /\ hookRunning' = FALSE
    /\ UNCHANGED <<errorMessage, errorDetails>>

execute_NoGuard(pathParams) ==
    LET u == IF pathParams = NoParams \/ url = Null THEN url
             ELSE ReplaceParam(url, pathParams)
        w == IF pathParams # NoParams /\ u # Null /\ HasParam(u)
             THEN TRUE ELSE waitToExecute
    IN /\ url' = u
       /\ waitTime' = IF w THEN 1 ELSE waitTime
       /\ waitToExecute' = FALSE
       /\ thrown' = NoError
       /\ UNCHANGED <<title, dependency, httpResponse, suiteVars, valueVars, responseVars>>
       /\ UNCHANGED <<isMock, responseType, timeRequestStarted,
                      timeRequestLoaded, timeScenarioFinished,
                      nextCallbacks, hooks, log, finishedResolved, work,
                      trace>>
       /\ IF ReadyAfter(u)
          THEN StartBefore("execute", NoMessage)
          ELSE UNCHANGED <<timeScenarioExecuted, runner>>

execute(pathParams) ==
    IF hasExecuted
    THEN Throw(AlreadyExecuting)
    ELSE LET u == IF pathParams = NoParams \/ url = Null THEN url
                  ELSE ReplaceParam(url, pathParams)
             w == IF pathParams # NoParams /\ u # Null /\ HasParam(u)
                  THEN TRUE ELSE waitToExecute
         IN /\ url' = u
            /\ waitTime' = IF w THEN 1 ELSE waitTime
            /\ waitToExecute' = FALSE
            /\ thrown' = NoError
            /\ UNCHANGED <<title, dependency, httpResponse, suiteVars, valueVars, responseVars>>
            /\ UNCHANGED <<isMock, responseType, timeRequestStarted,
                           timeRequestLoaded, timeScenarioFinished,
                           nextCallbacks, hooks, log, finishedResolved, work,
                           trace>>
            /\ IF ReadyAfter(u)
               THEN StartBefore("execute", NoMessage)
               ELSE UNCHANGED <<timeScenarioExecuted, runner>>

skip_NoGuard(message) ==
    /\ StartBefore("skip", message)
    /\ thrown' = NoError
    /\ UNCHANGED <<title, dependency, httpResponse, suiteVars, valueVars, responseVars>>
    /\ UNCHANGED <<config, timeRequestStarted, timeRequestLoaded,
                   timeScenarioFinished, nextCallbacks, hooks, log,
                   finishedResolved, work, trace>>

skip(message) ==
    IF hasExecuted
    THEN Throw(CanNotSkip)
    ELSE /\ StartBefore("skip", message)
         /\ thrown' = NoError
         /\ UNCHANGED <<title, dependency, httpResponse, suiteVars, valueVars, responseVars>>
         /\ UNCHANGED <<config, timeRequestStarted, timeRequestLoaded,
                        timeScenarioFinished, nextCallbacks, hooks, log,
                        finishedResolved, work, trace>>

cancel ==
    IF hasExecuted
    THEN Throw(CanNotCancel)
    ELSE /\ StartBefore("cancel", NoMessage)
         /\ thrown' = NoError
         /\ UNCHANGED <<title, dependency, httpResponse, suiteVars, valueVars, responseVars>>
         /\ UNCHANGED <<config, timeRequestStarted, timeRequestLoaded,
                        timeScenarioFinished, nextCallbacks, hooks, log,
                        finishedResolved, work, trace>>

\* ------------------------------------------------------- lifecycle steps
Truthy(v) == v \notin {"", Undefined, Null}
Emit(items, events) ==
    /\ log' = log \o items
    /\ trace' = trace \o events

\* a callback list handed to mapSeries: iteration starts at its first entry
StartList(name, list) ==
    /\ stage' = name
    /\ runList' = list
    /\ runIdx' = 0
    /\ hookRunning' = FALSE

HookStages == {"before", "after", "success", "failure", "finally"}
ListDone_Early(name) == stage = name
ListDone(name) == stage = name /\ ~hookRunning /\ runIdx = Len(runList)
MessageItems(cb) == IF cb.message # NoMessage
                    THEN <<Item("comment", cb.message)>> ELSE <<>>

HookInvoke_NoWait ==
    /\ stage \in HookStages
    /\ runIdx < Len(runList)
    /\ LET cb == runList[runIdx + 1]
       IN Emit(MessageItems(cb),
               LogEvents(MessageItems(cb))
               \o <<Event(stage, cb.id, cb.callback)>>)
    /\ runIdx' = runIdx + 1
    /\ hookRunning' = TRUE
    /\ thrown' = NoError
    /\ UNCHANGED <<title, dependency, httpResponse, suiteVars, valueVars, responseVars>>
    /\ UNCHANGED <<config, times, nextCallbacks, hooks, finishedResolved,
                   stage, mode, runList, errorMessage, errorDetails,
                   skipMessage, work>>

\* _fireCallbacks: mapSeries invokes the next callback of the list
HookInvoke ==
    /\ stage \in HookStages
    /\ ~hookRunning
    /\ runIdx < Len(runList)
    /\ LET cb == runList[runIdx + 1]
       IN Emit(MessageItems(cb),
               LogEvents(MessageItems(cb))
               \o <<Event(stage, cb.id, cb.callback)>>)
    /\ runIdx' = runIdx + 1
    /\ hookRunning' = TRUE
    /\ thrown' = NoError
    /\ UNCHANGED <<title, dependency, httpResponse, suiteVars, valueVars, responseVars>>
    /\ UNCHANGED <<config, times, nextCallbacks, hooks, finishedResolved,
                   stage, mode, runList, errorMessage, errorDetails,
                   skipMessage, work>>

\* the promise returned by the invoked callback is fulfilled
HookSettle ==
    /\ stage \in HookStages
    /\ hookRunning
    /\ hookRunning' = FALSE
    /\ thrown' = NoError
    /\ UNCHANGED <<title, dependency, httpResponse, suiteVars, valueVars, responseVars>>
    /\ UNCHANGED <<config, times, nextCallbacks, hooks, log, finishedResolved,
                   stage, mode, runList, runIdx, errorMessage, errorDetails,
                   skipMessage, work, trace>>

HookThrow_Caught ==
    /\ stage \in HookStages
    /\ hookRunning
    /\ runList[runIdx].callback \in CallbackArgs
    /\ hookRunning' = FALSE
    /\ Emit(<<Item("resultFailure", "hook error")>>,
            <<Event("hookThrow", runList[runIdx].id, stage),
              Event("resultFailure", 0, "hook error")>>)
    /\ thrown' = NoError
    /\ UNCHANGED <<title, dependency, httpResponse, suiteVars, valueVars, responseVars>>
    /\ UNCHANGED <<config, times, nextCallbacks, hooks, finishedResolved,
                   stage, mode, runList, runIdx, errorMessage, errorDetails,
                   skipMessage, work>>

\* the invoked callback throws or rejects: the awaiting function rejects and
\* nothing handles the rejection
HookThrow ==
    /\ stage \in HookStages
    /\ hookRunning
    /\ runList[runIdx].callback \in CallbackArgs
    /\ hookRunning' = FALSE
    /\ stage' = "aborted"
    /\ trace' = Append(trace, Event("hookThrow", runList[runIdx].id, stage))
    /\ thrown' = NoError
    /\ UNCHANGED <<title, dependency, httpResponse, suiteVars, valueVars, responseVars>>
    /\ UNCHANGED <<config, times, nextCallbacks, hooks, log, finishedResolved,
                   mode, runList, runIdx, errorMessage, errorDetails,
                   skipMessage, work>>

FireAfter_NoFinish ==
    /\ timeScenarioFinished' = timeScenarioFinished
    /\ StartList("after", afterCallbacks)

\* _fireAfter, up to its await: the finish time is taken, the list starts
FireAfter ==
    /\ timeScenarioFinished' = Stamp
    /\ StartList("after", afterCallbacks)

\* _markScenarioCompleted(errorMessage, errorDetails), up to its first await
MarkScenarioCompleted(message, details) ==
    IF ~hasFinished
    THEN /\ FireAfter
         /\ errorMessage' = IF message = Undefined THEN Null ELSE message
         /\ errorDetails' = details
    ELSE UNCHANGED <<timeScenarioFinished, stage, runList, runIdx, hookRunning,
                     errorMessage, errorDetails>>

ExecuteRequest_NoMark ==
    /\ url # Null
    /\ ~hasRequestStarted
    /\ url' = IF isMock THEN url ELSE buildUrl(url)
    /\ timeRequestStarted' = timeRequestStarted
    /\ stage' = "fetch"

\* _executeRequest / _executeMock: the fetch is handed to the adapter
ExecuteRequest ==
    /\ url # Null
    /\ ~hasRequestStarted
    /\ url' = IF isMock THEN url ELSE buildUrl(url)
    /\ timeRequestStarted' = Stamp
    /\ stage' = "fetch"

\* execute(), skip() or cancel() resume after `await this._fireBefore()`
BeforeDone ==
    /\ ListDone("before")
    /\ thrown' = NoError
    /\ UNCHANGED <<title, dependency, httpResponse, suiteVars, valueVars, responseVars>>
    /\ UNCHANGED <<isMock, responseType, waitToExecute, waitTime,
                   timeScenarioExecuted, timeRequestLoaded, nextCallbacks,
                   hooks, finishedResolved, mode, skipMessage, work>>
    /\ CASE mode = "execute" ->
              LET items == <<Item("heading", title)>> \o
                           (IF waitTime > 0
                            THEN <<Item("comment", "Waited")>> ELSE <<>>)
              IN IF url # Null /\ ~hasRequestStarted
                 THEN /\ ExecuteRequest
                      /\ Emit(items,
                              <<Publish("beforeExecute")>> \o LogEvents(items)
                              \o <<Publish("executionStart"),
                                   Event("fetch", 0, Adapter),
                                   Publish("executionProgress")>>)
                      /\ UNCHANGED <<timeScenarioFinished, runList, runIdx,
                                     hookRunning, errorMessage, errorDetails>>
                 ELSE /\ stage' = "aborted"
                      /\ Emit(items,
                              <<Publish("beforeExecute")>> \o LogEvents(items)
                              \o <<Publish("executionStart")>>)
                      /\ UNCHANGED <<url, timeRequestStarted,
                                     timeScenarioFinished, runList, runIdx,
                                     hookRunning, errorMessage, errorDetails>>
         [] mode = "skip" ->
              LET items == <<Item("comment",
                                  IF skipMessage # NoMessage
                                  THEN "Skipped: " \o skipMessage
                                  ELSE "Skipped")>>
              IN /\ Emit(items,
                         <<Publish("beforeExecute"),
                           Publish("executionSkipped")>> \o LogEvents(items)
                         \o <<Publish("executionProgress")>>)
                 /\ FireAfter
                 /\ UNCHANGED <<url, timeRequestStarted, errorMessage,
                                errorDetails>>
         [] OTHER ->
              /\ Emit(<<>>, <<Publish("beforeExecute")>>)
              /\ FireAfter
              /\ UNCHANGED <<url, timeRequestStarted, errorMessage,
                             errorDetails>>

\* --------------------------------------------------------- fetch adapter
FailedToLoad == IF isMock THEN "Failed to load page" ELSE "Failed to load"

\* the adapter resolves with a response: _processResponse starts the pipes
FetchResolve ==
    /\ stage = "fetch"
    /\ StartList("pipe", pipeCallbacks)
    /\ httpResponse' = AdapterResponse
    /\ thrown' = NoError
    /\ UNCHANGED <<title, dependency, suiteVars, valueVars, responseVars>>
    /\ UNCHANGED <<config, times, nextCallbacks, hooks, log, finishedResolved,
                   mode, errorMessage, errorDetails, skipMessage, work, trace>>

FetchReject_Retry ==
    /\ stage = "fetch"
    /\ trace' = trace \o <<Event("fetchFailed", 0, FetchError),
                           Event("fetch", 0, Adapter)>>
    /\ thrown' = NoError
    /\ UNCHANGED <<title, dependency, httpResponse, suiteVars, valueVars, responseVars>>
    /\ UNCHANGED <<config, times, nextCallbacks, hooks, log, finishedResolved,
                   runner, work>>

\* the adapter rejects
FetchReject ==
    /\ stage = "fetch"
    /\ MarkScenarioCompleted(FailedToLoad, FetchError)
    /\ trace' = Append(trace, Event("fetchFailed", 0, FetchError))
    /\ thrown' = NoError
    /\ UNCHANGED <<title, dependency, httpResponse, suiteVars, valueVars, responseVars>>
    /\ UNCHANGED <<config, timeScenarioExecuted, timeRequestStarted,
                   timeRequestLoaded, nextCallbacks, hooks, log,
                   finishedResolved, mode, skipMessage, work>>

FetchNoResponse_Ignored ==
    /\ stage = "fetch"
    /\ Adapter = "browser"
    /\ StartList("pipe", pipeCallbacks)
    /\ trace' = Append(trace, Event("fetchFailed", 0, "no response"))
    /\ thrown' = NoError
    /\ UNCHANGED <<title, dependency, httpResponse, suiteVars, valueVars, responseVars>>
    /\ UNCHANGED <<config, times, nextCallbacks, hooks, log, finishedResolved,
                   mode, errorMessage, errorDetails, skipMessage, work>>

\* the browser resolves without a response
FetchNoResponse ==
    /\ stage = "fetch"
    /\ Adapter = "browser"
    /\ MarkScenarioCompleted(FailedToLoad, Undefined)
    /\ trace' = Append(trace, Event("fetchFailed", 0, "no response"))
    /\ thrown' = NoError
    /\ UNCHANGED <<title, dependency, httpResponse, suiteVars, valueVars, responseVars>>
    /\ UNCHANGED <<config, timeScenarioExecuted, timeRequestStarted,
                   timeRequestLoaded, nextCallbacks, hooks, log,
                   finishedResolved, mode, skipMessage, work>>

\* ------------------------------------------------------------ pipe hooks
PipeInvoke ==
    /\ stage = "pipe"
    /\ ~hookRunning
    /\ runIdx < Len(runList)
    /\ LET cb == runList[runIdx + 1]
       IN Emit(MessageItems(cb),
               LogEvents(MessageItems(cb))
               \o <<Event("pipe", cb.id, httpResponse)>>)
    /\ runIdx' = runIdx + 1
    /\ hookRunning' = TRUE
    /\ thrown' = NoError
    /\ UNCHANGED <<title, dependency, httpResponse, suiteVars, valueVars, responseVars>>
    /\ UNCHANGED <<config, times, nextCallbacks, hooks, finishedResolved,
                   stage, mode, runList, errorMessage, errorDetails,
                   skipMessage, work>>

PipeSettle_Replace(result) ==
    /\ stage = "pipe"
    /\ hookRunning
    /\ hookRunning' = FALSE
    /\ httpResponse' = result
    /\ trace' = Append(trace, Event("pipeReturn", runList[runIdx].id, result))
    /\ thrown' = NoError
    /\ UNCHANGED <<title, dependency, suiteVars, valueVars, responseVars>>
    /\ UNCHANGED <<config, times, nextCallbacks, hooks, log, finishedResolved,
                   stage, mode, runList, runIdx, errorMessage, errorDetails,
                   skipMessage, work>>

\* the promise of the pipe callback is fulfilled with result: a truthy
\* result becomes the response
PipeSettle(result) ==
    /\ stage = "pipe"
    /\ hookRunning
    /\ hookRunning' = FALSE
    /\ httpResponse' = IF Truthy(result) THEN result ELSE httpResponse
    /\ trace' = Append(trace, Event("pipeReturn", runList[runIdx].id, result))
    /\ thrown' = NoError
    /\ UNCHANGED <<title, dependency, suiteVars, valueVars, responseVars>>
    /\ UNCHANGED <<config, times, nextCallbacks, hooks, log, finishedResolved,
                   stage, mode, runList, runIdx, errorMessage, errorDetails,
                   skipMessage, work>>

\* a pipe hook throws or rejects: _processResponse rejects, and its callers
\* (the adapter's then-handlers) have dropped the promise
PipeThrow ==
    /\ stage = "pipe"
    /\ hookRunning
    /\ hookRunning' = FALSE
    /\ stage' = "aborted"
    /\ trace' = Append(trace, Event("pipeThrow", runList[runIdx].id, ""))
    /\ thrown' = NoError
    /\ UNCHANGED <<title, dependency, httpResponse, suiteVars, valueVars, responseVars>>
    /\ UNCHANGED <<config, times, nextCallbacks, hooks, log, finishedResolved,
                   mode, runList, runIdx, errorMessage, errorDetails,
                   skipMessage, work>>

\* _processResponse resumes after `await this._pipeResponses(...)`
PipesDone ==
    /\ ListDone("pipe")
    /\ timeRequestLoaded' = Stamp
    /\ Emit(<<Item("resultSuccess", "Loaded")>>,
            <<Event("resultSuccess", 0, "Loaded"),
              Publish("executionProgress"),
              Event("phases", Len(nextCallbacks), ""),
              Publish("executionProgress")>>)
    /\ StartList("phase", nextCallbacks)
    /\ thrown' = NoError
    /\ UNCHANGED <<title, dependency, httpResponse, suiteVars, valueVars, responseVars>>
    /\ UNCHANGED <<config, timeScenarioExecuted, timeRequestStarted,
                   timeScenarioFinished, nextCallbacks, hooks,
                   finishedResolved, mode, errorMessage, errorDetails,
                   skipMessage, work>>

\* ------------------------------------------------------ assertion phases
\* the readiness signals of the AssertionContext of the running phase
assertionsResolved == assertionsPending = 0
subScenariosResolved == subsPending = 0

PhaseSettled_NoSubs == ~retPending /\ assertionsResolved

\* Promise.all([lastReturnValue, assertionsResolved, subScenariosResolved])
PhaseSettled == ~retPending /\ assertionsResolved /\ subScenariosResolved

\* the assertions of the running phase that were obtained from the context
\* and never given a check: every assertion started in the model is checked
incompleteAssertions == <<>>

AssertionsStarted ==
    assertionsPending
    + Cardinality({i \in DOMAIN log : log[i].message = "assertion"})

\* mapSeries invokes the next phase callback; the callback starts its work
\* and hands back a value or promise that settles in a later step
PhaseInvoke(na, ns) ==
    /\ stage = "phase"
    /\ runIdx < Len(runList)
    /\ runIdx = 0 \/ PhaseSettled
    /\    LET cb == runList[runIdx + 1]
              comment == nextCallbacks[runIdx + 1].message
              heading == IF comment # NoMessage
                         THEN <<Item("subheading", comment)>> ELSE <<>>
              warnings == [i \in DOMAIN incompleteAssertions |->
                              Item("resultOptionalFailure",
                                   "Incomplete assertion")]
          IN /\ Emit(heading \o warnings,
                     LogEvents(heading) \o <<Event("phase", cb.id, "")>>
                     \o LogEvents(warnings))
             /\ retPending' = TRUE
             /\ assertionsPending' = na
             /\ subsPending' = ns
    /\ runIdx' = runIdx + 1
    /\ thrown' = NoError
    /\ UNCHANGED <<title, dependency, httpResponse, suiteVars, valueVars, responseVars>>
    /\ UNCHANGED <<config, times, nextCallbacks, hooks, finishedResolved,
                   stage, mode, runList, hookRunning, errorMessage,
                   errorDetails, skipMessage>>

\* an assertion started by the phase records its result
AssertionSettle(passed) ==
    /\ assertionsPending > 0
    /\ assertionsPending' = assertionsPending - 1
    /\ LET item == Item(IF passed THEN "resultSuccess" ELSE "resultFailure",
                        "assertion")
       IN Emit(<<item>>, LogEvents(<<item>>))
    /\ thrown' = NoError
    /\ UNCHANGED <<title, dependency, httpResponse, suiteVars, valueVars, responseVars>>
    /\ UNCHANGED <<config, times, nextCallbacks, hooks, finishedResolved,
                   runner, retPending, subsPending>>

\* a sub-scenario spawned by the phase finishes
SubScenarioSettle ==
    /\ subsPending > 0
    /\ subsPending' = subsPending - 1
    /\ thrown' = NoError
    /\ UNCHANGED <<title, dependency, httpResponse, suiteVars, valueVars, responseVars>>
    /\ UNCHANGED <<config, times, nextCallbacks, hooks, log, finishedResolved,
                   runner, retPending, assertionsPending, trace>>

\* the phase callback returns a value, or the promise it returned is fulfilled
ReturnSettle ==
    /\ retPending
    /\ retPending' = FALSE
    /\ thrown' = NoError
    /\ UNCHANGED <<title, dependency, httpResponse, suiteVars, valueVars, responseVars>>
    /\ UNCHANGED <<config, times, nextCallbacks, hooks, log, finishedResolved,
                   runner, assertionsPending, subsPending, trace>>

\* the phase callback throws, or the promise it returned is rejected
ReturnReject(err) ==
    /\ retPending
    /\ retPending' = FALSE
    /\ thrown' = NoError
    /\ UNCHANGED <<title, dependency, httpResponse, suiteVars, valueVars, responseVars>>
    /\ UNCHANGED <<config, timeScenarioExecuted, timeRequestStarted,
                   timeRequestLoaded, nextCallbacks, hooks, log,
                   finishedResolved, mode, skipMessage, assertionsPending,
                   subsPending>>
    /\ IF stage = "phase"
       THEN /\ MarkScenarioCompleted(err, Undefined)
            /\ trace' = Append(trace,
                               Event("phaseThrow", runList[runIdx].id, err))
       ELSE UNCHANGED <<timeScenarioFinished, stage, runList, runIdx,
                        hookRunning, errorMessage, errorDetails, trace>>

PhaseTimeout_NoError ==
    /\ stage = "phase"
    /\ runIdx > 0
    /\ ~PhaseSettled
    /\ MarkScenarioCompleted(Undefined, Undefined)
    /\ trace' = Append(trace, Event("phaseTimeout", runList[runIdx].id, ""))
    /\ thrown' = NoError
    /\ UNCHANGED <<title, dependency, httpResponse, suiteVars, valueVars, responseVars>>
    /\ UNCHANGED <<config, timeScenarioExecuted, timeRequestStarted,
                   timeRequestLoaded, nextCallbacks, hooks, log,
                   finishedResolved, mode, skipMessage, work>>

\* .timeout(30000) fires while the phase's work is outstanding
PhaseTimeout ==
    /\ stage = "phase"
    /\ runIdx > 0
    /\ ~PhaseSettled
    /\ MarkScenarioCompleted(TimeoutError, Undefined)
    /\ trace' = Append(trace, Event("phaseTimeout", runList[runIdx].id, ""))
    /\ thrown' = NoError
    /\ UNCHANGED <<title, dependency, httpResponse, suiteVars, valueVars, responseVars>>
    /\ UNCHANGED <<config, timeScenarioExecuted, timeRequestStarted,
                   timeRequestLoaded, nextCallbacks, hooks, log,
                   finishedResolved, mode, skipMessage, work>>

PhasesDone_StopOnFailure ==
    /\ stage = "phase"
    /\ runIdx > 0
    /\ runIdx = Len(runList) \/ hasFailed
    /\ PhaseSettled
    /\ MarkScenarioCompleted(Undefined, Undefined)
    /\ thrown' = NoError
    /\ UNCHANGED <<title, dependency, httpResponse, suiteVars, valueVars, responseVars>>
    /\ UNCHANGED <<config, timeScenarioExecuted, timeRequestStarted,
                   timeRequestLoaded, nextCallbacks, hooks, log,
                   finishedResolved, mode, skipMessage, work, trace>>

\* mapSeries is fulfilled: every phase has run and settled
PhasesDone ==
    /\ stage = "phase"
    /\ runIdx = Len(runList)
    /\ PhaseSettled
    /\ MarkScenarioCompleted(Undefined, Undefined)
    /\ thrown' = NoError
    /\ UNCHANGED <<title, dependency, httpResponse, suiteVars, valueVars, responseVars>>
    /\ UNCHANGED <<config, timeScenarioExecuted, timeRequestStarted,
                   timeRequestLoaded, nextCallbacks, hooks, log,
                   finishedResolved, mode, skipMessage, work, trace>>

\* ------------------------------------------------------------ completion
FailureMessage_None == Undefined

\* the message _markScenarioCompleted passes to _fireFailure
FailureMessage ==
    IF errorMessage = Null THEN Undefined
    ELSE IF Truthy(errorDetails) THEN errorDetails ELSE errorMessage

\* resumes after `await this._fireAfter()`
AfterDone ==
    /\ ListDone("after")
    /\ thrown' = NoError
    /\ UNCHANGED <<title, dependency, httpResponse, suiteVars, valueVars, responseVars>>
    /\ UNCHANGED <<config, times, nextCallbacks, hooks, finishedResolved,
                   mode, errorMessage, errorDetails, skipMessage, work>>
    /\ IF mode = "execute"
       THEN LET took == <<Item("comment", "Took")>>
                fail == <<Item("resultFailure", errorMessage)>>
            IN IF errorMessage = Null
               THEN /\ Emit(took,
                            <<Publish("afterExecute")>> \o LogEvents(took))
                    /\ IF hasPassed
                       THEN StartList("success", successCallbacks)
                       ELSE StartList("failure", failureCallbacks)
               ELSE /\ Emit(took \o fail, <<Publish("afterExecute")>>
                                          \o LogEvents(took \o fail))
                    /\ StartList("failure", failureCallbacks)
       ELSE /\ Emit(<<>>, <<Publish("afterExecute")>>)
            /\ StartList("finally", finallyCallbacks)

SuccessDone_NoFinally ==
    /\ ListDone("success")
    /\ Emit(<<>>, <<Publish("finished")>>)
    /\ stage' = "done"
    /\ thrown' = NoError
    /\ UNCHANGED <<title, dependency, httpResponse, suiteVars, valueVars,
                   responseVars>>
    /\ UNCHANGED <<config, times, nextCallbacks, hooks, finishedResolved,
                   mode, runList, runIdx, hookRunning, errorMessage,
                   errorDetails, skipMessage, work>>

\* _fireSuccess resumes after its list
SuccessDone ==
    /\ ListDone("success")
    /\ Emit(<<>>, <<Publish("finished")>>)
    /\ StartList("finally", finallyCallbacks)
    /\ thrown' = NoError
    /\ UNCHANGED <<title, dependency, httpResponse, suiteVars, valueVars, responseVars>>
    /\ UNCHANGED <<config, times, nextCallbacks, hooks, finishedResolved,
                   mode, errorMessage, errorDetails, skipMessage, work>>

\* _fireFailure resumes after its list
FailureDone ==
    /\ ListDone("failure")
    /\ LET items == IF Truthy(FailureMessage)
                    THEN <<Item("comment", FailureMessage)>> ELSE <<>>
       IN Emit(items, LogEvents(items) \o <<Publish("finished")>>)
    /\ StartList("finally", finallyCallbacks)
    /\ thrown' = NoError
    /\ UNCHANGED <<title, dependency, httpResponse, suiteVars, valueVars, responseVars>>
    /\ UNCHANGED <<config, times, nextCallbacks, hooks, finishedResolved,
                   mode, errorMessage, errorDetails, skipMessage, work>>

FinallyDone_Early ==
    /\ stage = "finally"
    /\ Emit(<<>>, <<Publish("finished")>>)
    /\ finishedResolved' = TRUE
    /\ stage' = "done"
    /\ thrown' = NoError
    /\ UNCHANGED <<title, dependency, httpResponse, suiteVars, valueVars, responseVars>>
    /\ UNCHANGED <<config, times, nextCallbacks, hooks, mode, runList, runIdx,
                   hookRunning, errorMessage, errorDetails, skipMessage, work>>

\* _fireFinally resumes after its list
FinallyDone ==
    /\ ListDone("finally")
    /\ Emit(<<>>, <<Publish("finished")>>)
    /\ finishedResolved' = TRUE
    /\ stage' = "done"
    /\ thrown' = NoError
    /\ UNCHANGED <<title, dependency, httpResponse, suiteVars, valueVars, responseVars>>
    /\ UNCHANGED <<config, times, nextCallbacks, hooks, mode, runList, runIdx,
                   hookRunning, errorMessage, errorDetails, skipMessage, work>>

\* ------------------------------------------------------------------ Suite
\* the variables of the Scenario of scenario.ts
scenarioVars == <<config, times, nextCallbacks, hooks, log, finishedResolved,
                  runner, work, thrown, trace, title, dependency,
                  httpResponse>>

Tags == {"smoke", "api"}
\* the tags argument of Suite.Scenario: a list that names a tag once; the
\* empty list also stands for the absent argument
TagLists ==
    {tags \in UNION {[1..n -> Tags] : n \in 0..MaxTags} :
        \A i, j \in DOMAIN tags : tags[i] = tags[j] => i = j}
NoScenario == 0

\* a Scenario of the Suite is named by its position in Suite.scenarios; state
\* is the lifecycle state the calls have brought it to
NewScenario(tags) ==
    [tags |-> tags, url |-> Null, start |-> Null, end |-> Null,
     passes |-> <<>>, failures |-> <<>>, state |-> "Created"]

Put_Replace(map, tag, scenario) ==
    [t \in DOMAIN map \cup {tag} |->
        IF t = tag THEN <<scenario>> ELSE map[t]]

\* byTag.hasOwnProperty(tag) ? byTag[tag].push(scenario)
\*                            : (byTag[tag] = [scenario])
Put(map, tag, scenario) ==
    [t \in DOMAIN map \cup {tag} |->
        IF t # tag THEN map[t]
        ELSE IF tag \in DOMAIN map THEN Append(map[tag], scenario)
        ELSE <<scenario>>]

\* tags.forEach
RECURSIVE PutAll(_, _, _)
PutAll(map, tags, scenario) ==
    IF tags = <<>> THEN map
    ELSE PutAll(Put(map, Head(tags), scenario), Tail(tags), scenario)

\* Suite.Scenario(title, tags)
SuiteScenario(tags) ==
    /\ Len(scenarios) < MaxScenarios
    /\ scenarios' = Append(scenarios, NewScenario(tags))
    /\ byTag' = PutAll(byTag, tags, Len(scenarios) + 1)
    /\ UNCHANGED <<scenarioVars, valueVars, responseVars>>

getScenarioByTag(tag) ==
    IF tag \in DOMAIN byTag THEN byTag[tag][1] ELSE NoScenario
getAllScenariosByTag(tag) ==
    IF tag \in DOMAIN byTag THEN byTag[tag] ELSE <<>>

\* index.ts Scenario: isDone, passed, failed
ScenarioIsDone(sc) == sc.end # Null
ScenarioPassed(sc) ==
    Len(sc.passes) > 0 /\ sc.end # Null /\ Len(sc.failures) = 0
ScenarioFailed(sc) == Len(sc.failures) > 0

SuiteIsDone_Some ==
    \E i \in DOMAIN scenarios : ScenarioIsDone(scenarios[i])

\* Suite.isDone, passed, failed
SuiteIsDone == \A i \in DOMAIN scenarios : ScenarioIsDone(scenarios[i])
SuitePassed == \A i \in DOMAIN scenarios : ScenarioPassed(scenarios[i])
SuiteFailed == \E i \in DOMAIN scenarios : ScenarioFailed(scenarios[i])

\* one Scenario of the Suite changes, the rest of the state stays
Change(i, sc) ==
    /\ scenarios' = [scenarios EXCEPT ![i] = sc]
    /\ UNCHANGED <<byTag, scenarioVars, valueVars, responseVars>>

\* index.ts Scenario.open(url); no assertions are given yet
ScenarioOpen(i) ==
    /\ scenarios[i].start = Null
    /\ Change(i, [scenarios[i] EXCEPT !.url = "/"])

\* index.ts Scenario.skip()
ScenarioSkip(i) ==
    /\ scenarios[i].start = Null
    /\ Change(i, [scenarios[i] EXCEPT !.start = Stamp, !.end = Stamp,
                                      !.state = "Skipped"])

\* Suite.execute(): Scenario.execute() on every Scenario, which starts the
\* ones that have a url and have not started
SuiteExecute ==
    /\ scenarios' =
          [i \in DOMAIN scenarios |->
              IF scenarios[i].start = Null /\ scenarios[i].url # Null
              THEN [scenarios[i] EXCEPT !.start = Stamp,
                                        !.state = "Executing"]
              ELSE scenarios[i]]
    /\ scenarios' # scenarios
    /\ UNCHANGED <<byTag, scenarioVars, valueVars, responseVars>>

Requested(sc) ==
    sc.start # Null /\ sc.url # Null /\ sc.passes = <<>> /\ sc.failures = <<>>
        /\ sc.end = Null

\* the callback of request(): the page has loaded, or has not
RequestLoaded(i) ==
    /\ Requested(scenarios[i])
    /\ Change(i, [scenarios[i] EXCEPT !.passes = <<"Loaded">>])
RequestFailed(i) ==
    /\ Requested(scenarios[i])
    /\ Change(i, [scenarios[i] EXCEPT !.failures = <<"Failed to load">>])

\* the assertions of a loaded page: Scenario.pass(message), fail(message)
Asserted(sc) == Len(sc.passes) + Len(sc.failures) - 1
ScenarioPass(i) ==
    /\ scenarios[i].passes # <<>>
    /\ Asserted(scenarios[i]) < MaxAssertions
    /\ Change(i, [scenarios[i] EXCEPT !.passes = Append(@, "pass")])
ScenarioFail(i) ==
    /\ scenarios[i].passes # <<>>
    /\ Asserted(scenarios[i]) < MaxAssertions
    /\ Change(i, [scenarios[i] EXCEPT !.failures = Append(@, "fail")])

\* index.ts Scenario.done(), called by the assertions of a loaded page
ScenarioDone(i) ==
    /\ scenarios[i].passes # <<>>
    /\ scenarios[i].end = Null
    /\ Change(i, [scenarios[i] EXCEPT !.end = Stamp, !.state = "Completed"])

\* -------------------------------------------------------- GenericResponse
\* the calls on the response are kept in the history; an assertion is kept
\* as the call of Scenario.pass or Scenario.fail it makes, with the optional
\* argument of fail as 1 or 0
Called(events) ==
    /\ trace' = trace \o events
    /\ UNCHANGED <<config, times, nextCallbacks, hooks, log, finishedResolved,
                   runner, work, thrown, title, dependency, httpResponse,
                   suiteVars, valueVars>>

\* GenericResponse.select(path)
select ==
    /\ Called(<<Event("select", 0, "")>>)
    /\ UNCHANGED responseVars

\* GenericResponse.optional()
optional ==
    /\ optionalAssertion' = TRUE
    /\ Called(<<Event("optional", 0, "")>>)
    /\ UNCHANGED <<flipAssertion, ignoreAssertion>>

\* GenericResponse.not()
not ==
    /\ flipAssertion' = TRUE
    /\ Called(<<Event("not", 0, "")>>)
    /\ UNCHANGED <<optionalAssertion, ignoreAssertion>>

\* startIgnoringAssertions(), stopIgnoringAssertions()
startIgnoringAssertions ==
    /\ ignoreAssertion' = TRUE
    /\ Called(<<Event("startIgnoring", 0, "")>>)
    /\ UNCHANGED <<flipAssertion, optionalAssertion>>
stopIgnoringAssertions ==
    /\ ignoreAssertion' = FALSE
    /\ Called(<<Event("stopIgnoring", 0, "")>>)
    /\ UNCHANGED <<flipAssertion, optionalAssertion>>

\* GenericResponse.assert(statement, passMessage, failMessage), with reset()
assert(statement) ==
    IF ~ignoreAssertion
    THEN LET passed == IF flipAssertion THEN ~statement ELSE statement
             prefix == IF flipAssertion THEN "NOT: " ELSE ""
             suffix == IF optionalAssertion THEN " (Optional)" ELSE ""
         IN /\ Called(<<IF passed
                         THEN Event("pass", 0, prefix \o "passMessage")
                         ELSE Event("fail",
                                    IF optionalAssertion THEN 1 ELSE 0,
                                    prefix \o "failMessage" \o suffix)>>)
            /\ flipAssertion' = FALSE
            /\ optionalAssertion' = FALSE
            /\ UNCHANGED ignoreAssertion
    ELSE /\ Called(<<Event("ignored", 0, "")>>)
         /\ UNCHANGED responseVars

\* ------------------------------------------------------------------ Value
\* key ? row[key] : row
Field(row, key) == IF key = NoKey THEN row ELSE row[key]

\* Array.prototype.sort(compare): sorts the array in place, equal elements
\* keep their order
Sort(arr, Compare(_, _)) ==
    LET sorted[i \in 0..Len(arr)] ==
            IF i = 0 THEN <<>>
            ELSE LET before == {j \in DOMAIN sorted[i - 1] :
                                   Compare(sorted[i - 1][j], arr[i]) <= 0}
                     n == Cardinality(before)
                 IN SubSeq(sorted[i - 1], 1, n) \o <<arr[i]>>
                    \o SubSeq(sorted[i - 1], n + 1, i - 1)
    IN sorted[Len(arr)]

\* Array.prototype.reduce(step, initial)
Reduce(arr, Step(_, _), initial) ==
    LET acc[i \in 0..Len(arr)] ==
            IF i = 0 THEN initial ELSE Step(acc[i - 1], arr[i])
    IN acc[Len(arr)]

\* A projection gives the data of the Value it returns and the array the
\* source Value holds after the call.
Returned(data, arr) == [data |-> data, source |-> arr]

\* toArray() is the array of the source itself, sort works in place
asc(arr, key) ==
    LET Compare(a, b) == Field(a, key) - Field(b, key)
    IN Returned(Sort(arr, Compare), Sort(arr, Compare))
desc(arr, key) ==
    LET Compare(a, b) == (Field(a, key) - Field(b, key)) * (-1)
    IN Returned(Sort(arr, Compare), Sort(arr, Compare))
median(arr, key) ==
    LET Compare(a, b) == Field(a, key) - Field(b, key)
        med == Sort(arr, Compare)[(Len(arr) \div 2) + 1]
    IN Returned(IF arr = <<>> THEN Undefined ELSE Field(med, key),
                Sort(arr, Compare))
unique(arr, key) ==
    LET first == SelectSeq([i \in DOMAIN arr |-> i],
                           LAMBDA i : \A j \in 1..(i - 1) : arr[j] # arr[i])
    IN Returned([n \in DOMAIN first |-> arr[first[n]]], arr)
\* filter(func) with the callback (value) => value > 0
filter(arr, key) == Returned(SelectSeq(arr, LAMBDA x : x > 0), arr)
\* map(callback) with the callback (value) => value + 1
map(arr, key) == Returned([i \in DOMAIN arr |-> arr[i] + 1], arr)
min(arr, key) ==
    LET Step(m, row) == IF Field(row, key) < m THEN Field(row, key) ELSE m
    IN Returned(IF arr = <<>> THEN Null
                ELSE Reduce(Tail(arr), Step, Field(arr[1], key)), arr)
max(arr, key) ==
    LET Step(m, row) == IF Field(row, key) > m THEN Field(row, key) ELSE m
    IN Returned(IF arr = <<>> THEN Null
                ELSE Reduce(Tail(arr), Step, Field(arr[1], key)), arr)
sum(arr, key) ==
    LET Step(total, row) == total + Field(row, key)
    IN Returned(Reduce(arr, Step, 0), arr)

\* count + !!row[key] ? 1 : 0 is (count + !!row[key]) ? 1 : 0
count(arr, key) ==
    LET Step(c, row) ==
            IF key # NoKey
            THEN IF c + (IF row[key] # 0 THEN 1 ELSE 0) # 0 THEN 1 ELSE 0
            ELSE c + 1
    IN Returned(Reduce(arr, Step, 0), arr)

Projections == {"asc", "desc", "median", "unique", "filter", "map", "min",
                "max", "sum", "count"}
Project(op, arr, key) ==
    CASE op = "asc" -> asc(arr, key)
      [] op = "desc" -> desc(arr, key)
      [] op = "median" -> median(arr, key)
      [] op = "unique" -> unique(arr, key)
      [] op = "filter" -> filter(arr, key)
      [] op = "map" -> map(arr, key)
      [] op = "min" -> min(arr, key)
      [] op = "max" -> max(arr, key)
      [] op = "sum" -> sum(arr, key)
      [] op = "count" -> count(arr, key)

\* new Value(input, context, name)
NewValue(data) ==
    /\ input' = data
    /\ output' = [op |-> "new", key |-> NoKey, data |-> Null]
    /\ UNCHANGED <<scenarioVars, suiteVars, responseVars>>

\* a projection is called on the Value; rows are read by their property,
\* numbers as they are, and count() counts without a key
Call(op, key) ==
    /\ output.op # "none"
    /\ \/ input.rows /\ key # NoKey /\ op \notin {"unique", "filter", "map"}
       \/ input.rows /\ key = NoKey /\ op = "count"
       \/ ~input.rows /\ key = NoKey
    /\ LET returned == Project(op, input.items, key)
       IN /\ input' = [input EXCEPT !.items = returned.source]
          /\ output' = [op |-> op, key |-> key, data |-> returned.data]
    /\ UNCHANGED <<scenarioVars, suiteVars, responseVars>>

\* the operations of the extended interface, as the base Value has them
Interactions == {"focus", "hover", "blur", "tap", "longpress", "press",
                 "clearThenType", "type", "clear"}
Traversals == {"getAncestor", "getChildren", "getAncestors",
               "getAncestorOrSelf", "getFirstChild", "getLastChild",
               "getFirstSibling", "getLastSibling", "getChildOrSelf",
               "getDescendantOrSelf", "getDescendants", "getParent",
               "getSiblings", "getPreviousSibling", "getPreviousSiblings",
               "getNextSibling", "getNextSiblings"}
Clicks == {"click", "submit"}
NullLookups == {"getClassName", "getInnerHtml", "getOuterHtml",
                "getStyleProperty", "getBounds"}
DomOperations == Interactions \cup Traversals \cup Clicks \cup NullLookups
NotSupported(op) ==
    IF op \in Interactions THEN "This element does not support " \o op \o "()."
    ELSE op \o "() is not supported by value"
CouldNot(op) ==
    IF op = "click" THEN "Element could not be clicked on: value"
    ELSE "Element could not be submitted on: value"

\* AssertionContext.logFailure(message): the failure is appended to the log
\* of the owning Scenario at once
logFailure(message) ==
    Emit(<<Item("resultFailure", message)>>,
         <<Event("resultFailure", 0, message)>>)

DomCall_AllThrow(op) ==
    /\ output.op # "none"
    /\ thrown' = NotSupported(op)
    /\ UNCHANGED <<log, trace, output>>
    /\ UNCHANGED <<config, times, nextCallbacks, hooks, finishedResolved,
                   runner, work, title, dependency, httpResponse,
                   suiteVars, input, responseVars>>

\* an operation of the extended interface is called on the base Value
DomCall(op) ==
    /\ output.op # "none"
    /\ op \in Clicks => Len(log) < MaxAssertions
    /\ IF op \in Clicks
       THEN /\ logFailure(CouldNot(op))
            /\ output' = [op |-> op, key |-> NoKey, data |-> "this"]
            /\ UNCHANGED thrown
       ELSE IF op \in NullLookups
       THEN /\ output' = [op |-> op, key |-> NoKey, data |-> Null]
            /\ UNCHANGED <<log, trace, thrown>>
       ELSE /\ thrown' = NotSupported(op)
            /\ UNCHANGED <<log, trace, output>>
    /\ UNCHANGED <<config, times, nextCallbacks, hooks, finishedResolved,
                   runner, work, title, dependency, httpResponse,
                   suiteVars, input, responseVars>>

\* ---------------------------------------------------------- specification
\* The hook lists are filled before the Scenario is started, one list after
\* the other in the order of HookOrder; a mock target is set before the start.
HookOrder == <<"before", "after", "finally", "success", "failure", "pipe">>
NextHook == HookOrder[(HookTotal % Len(HookOrder)) + 1]

Hooks == HookInvoke \/ HookSettle \/ HookThrow

Fetch == FetchResolve \/ FetchReject

Pipes == PipeInvoke \/ PipeSettle(Undefined) \/ PipeThrow \/ PipesDone

Completion == BeforeDone \/ AfterDone \/ SuccessDone \/ FailureDone \/ FinallyDone

\* Spec: the test script opens the target of an html Scenario, appends the
\* phases and the hooks and calls execute once; the lifecycle runs with
\* every kind of phase work.
Setup ==
    /\ ~hasExecuted
    /\ \/ \E u \in Targets : open(u)
       \/ next(NoMessage, TRUE)
       \/ pushCallbacks(NextHook, NoMessage)

Start == ~hasExecuted /\ \E p \in PathParams : execute(p)

Phases ==
    \/ \E na \in 0..(MaxAssertions - AssertionsStarted),
          ns \in 0..MaxSubScenarios : PhaseInvoke(na, ns)
    \/ \E passed \in BOOLEAN : AssertionSettle(passed)
    \/ SubScenarioSettle
    \/ ReturnSettle
    \/ \E err \in ThrownValues : ReturnReject(err)
    \/ PhaseTimeout
    \/ PhasesDone

Next == Setup \/ Start \/ Hooks \/ Fetch \/ Pipes \/ Phases \/ Completion

Spec == Init /\ [][Next]_vars

\* SpecLive: the Scenario of Spec whose hook and pipe callbacks settle
\* without throwing; the adapter answers, a callback that was invoked
\* settles and a phase that does not settle reaches its timeout, each
\* at some time.
Progress ==
    \/ HookInvoke \/ HookSettle
    \/ Fetch
    \/ PipeInvoke \/ PipeSettle(Undefined) \/ PipesDone
    \/ \E na \in 0..(MaxAssertions - AssertionsStarted) : PhaseInvoke(na, 0)
    \/ \E passed \in BOOLEAN : AssertionSettle(passed)
    \/ ReturnSettle
    \/ \E err \in ThrownValues : ReturnReject(err)
    \/ PhaseTimeout
    \/ PhasesDone
    \/ Completion

NextLive == Setup \/ Start \/ Progress

SpecLive == Init /\ [][NextLive]_vars /\ WF_vars(Progress)

\* SpecCalls: Scenarios of every response type and adapter; the control
\* calls, open and next are made at any time, also while a hook, the fetch or
\* a phase is in flight and after the end; the phases do no asynchronous
\* work besides the value they return.
Calls ==
    \/ \E type \in ResponseTypes : ~hasExecuted /\ setResponseType(type)
    \/ \E u \in Targets : open(u)
    \/ \E u \in Targets : ~hasExecuted /\ ~isBrowser /\ mock(u)
    \/ \E append \in BOOLEAN : next(NoMessage, append)
    \/ ~hasExecuted /\ pushCallbacks(NextHook, NoMessage)
    \/ \E p \in PathParams : execute(p)
    \/ \E m \in Labels : skip(m)
    \/ cancel

PhasesOfCalls ==
    \/ PhaseInvoke(0, 0)
    \/ ReturnSettle
    \/ \E err \in ThrownValues : ReturnReject(err)
    \/ PhaseTimeout
    \/ PhasesDone

NextCalls ==
    Calls \/ Hooks \/ Fetch \/ FetchNoResponse \/ Pipes \/ PhasesOfCalls
    \/ Completion

SpecCalls == Init /\ [][NextCalls]_vars

\* SpecReady: a Scenario without hooks whose target may hold placeholders;
\* open, next, wait, waitFor and execute (with and without path parameters)
\* are called in any order until the Scenario starts.
ReadyCalls ==
    \/ \E u \in TemplateTargets : ~hasExecuted /\ open(u)
    \/ ~hasExecuted /\ next(NoMessage, TRUE)
    \/ \E bool \in BOOLEAN : ~hasExecuted /\ wait(bool)
    \/ \E that \in {"this", "that"} :
          ~hasExecuted /\ dependency = "none" /\ waitFor(that)
    \/ DependencySucceeds
    \/ \E p \in TemplateParams : execute(p)

Run ==
    \/ BeforeDone
    \/ FetchResolve
    \/ FetchReject
    \/ PipesDone
    \/ PhasesOfCalls
    \/ AfterDone
    \/ SuccessDone
    \/ FailureDone
    \/ FinallyDone

NextReady == ReadyCalls \/ Run

SpecReady == Init /\ [][NextReady]_vars

\* SpecFrozen: a Scenario without hooks whose title, response type and
\* target are assigned at any time, before and after execute, skip or cancel.
FrozenCalls ==
    \/ SetTitle("renamed")
    \/ \E type \in ResponseTypes : setResponseType(type)
    \/ \E u \in Targets : open(u)
    \/ \E u \in Targets : mock(u)
    \/ SetUrl("/1/a", isMock)
    \/ ~hasExecuted /\ next(NoMessage, TRUE)
    \/ \E p \in PathParams : execute(p)
    \/ \E m \in Labels : skip(m)
    \/ cancel

NextFrozen == FrozenCalls \/ FetchNoResponse \/ Run

SpecFrozen == Init /\ [][NextFrozen]_vars

\* SpecRegister: registration calls with every shape of argument list,
\* before the start and after the finish; the calls made before the start
\* all have the same shape, and one call is made after the finish.
ArgLists == {<<"label", "cb1">>, <<"cb1", "cb2">>, <<"label">>}
Registered ==
    {nextCallbacks[i] : i \in DOMAIN nextCallbacks}
    \cup UNION {{CallbacksOf(name)[i] : i \in DOMAIN CallbacksOf(name)} :
                name \in HookNames}
SameShape(args) ==
    \A cb \in Registered :
        \/ cb.callback \notin CallbackArgs
        \/ /\ cb.callback = CallbackOverload(ArgA(args), ArgB(args))
           /\ cb.message = MessageOverload(ArgA(args))
LateCall ==
    /\ thrown = NoError
    /\ \A i \in DOMAIN trace : trace[i].ev # "executor"
RegisterCalls ==
    \/ \E args \in ArgLists, append \in BOOLEAN :
          /\ \/ ~hasExecuted /\ SameShape(args) /\ append
             \/ hasFinished /\ LateCall
          /\ nextArgs(args, append)
    \/ \E args \in ArgLists :
          \/ ~hasExecuted /\ SameShape(args) /\ pushArgs(NextHook, args)
          \/ hasFinished /\ LateCall
             /\ \E name \in HookNames : pushArgs(name, args)
    \/ /\ \/ ~hasExecuted /\ NextHook = "success"
          \/ hasFinished /\ LateCall
       /\ promise
    \/ ~hasExecuted /\ \E u \in Targets : open(u)
    \/ ~hasExecuted /\ execute(NoParams)
    \/ ~hasExecuted /\ skip(NoMessage)
    \/ ~hasExecuted /\ cancel

NextRegister ==
    \/ RegisterCalls
    \/ HookInvoke \/ HookSettle
    \/ Fetch
    \/ PipeInvoke \/ PipeSettle(Undefined) \/ PipesDone
    \/ PhaseInvoke(0, 0) \/ ReturnSettle \/ PhasesDone
    \/ Completion

SpecRegister == Init /\ [][NextRegister]_vars

\* SpecHooks: every lifecycle hook list is filled by one call with an array
\* of callbacks, one list after the other, before the Scenario is started;
\* skip and cancel are also called once it has started.
Lifecycle == <<"before", "after", "success", "failure", "finally">>
HookCalls ==
    /\ ~hasExecuted
    /\ \/ \E n \in 1..MaxArray, k \in DOMAIN Lifecycle :
             /\ \A j \in 1..(k - 1) : CallbacksOf(Lifecycle[j]) # <<>>
             /\ CallbacksOf(Lifecycle[k]) = <<>>
             /\ pushArray(Lifecycle[k], [i \in 1..n |-> "cb1"])
       \/ \E u \in Targets : open(u)
       \/ next(NoMessage, TRUE)
       \/ execute(NoParams)
       \/ skip(NoMessage)
       \/ cancel

LateCalls == hasExecuted /\ (skip(NoMessage) \/ cancel)

NextHooks ==
    \/ HookCalls
    \/ LateCalls
    \/ Hooks
    \/ Fetch
    \/ PipesDone
    \/ PhaseInvoke(0, 0) \/ ReturnSettle \/ PhasesDone
    \/ Completion

SpecHooks == Init /\ [][NextHooks]_vars

\* SpecPipes: an array of pipe hooks is registered; each of them returns
\* nothing or a response of its own, or throws.
PipeCalls ==
    /\ ~hasExecuted
    /\ \/ \E n \in 1..MaxArray :
             pipeCallbacks = <<>> /\ pushArray("pipe", [i \in 1..n |-> "cb1"])
       \/ \E u \in Targets : open(u)
       \/ next(NoMessage, TRUE)
       \/ execute(NoParams)

NextPipes ==
    \/ PipeCalls
    \/ BeforeDone
    \/ Fetch
    \/ PipeInvoke
    \/ \E result \in {Undefined, Piped(runIdx)} : PipeSettle(result)
    \/ PipeThrow
    \/ PipesDone
    \/ PhaseInvoke(0, 0) \/ ReturnSettle \/ PhasesDone
    \/ Completion

SpecPipes == Init /\ [][NextPipes]_vars

\* SpecResponse: selectors, modifiers and assertions are called on one
\* GenericResponse.
NextResponse ==
    /\ Len(trace) < MaxResponseCalls
    /\ \/ select
       \/ optional
       \/ not
       \/ startIgnoringAssertions
       \/ stopIgnoringAssertions
       \/ \E statement \in BOOLEAN : assert(statement)

SpecResponse == Init /\ [][NextResponse]_vars

\* SpecValue: a Value is made of an array, and its projections and the
\* operations of the extended interface are called.
\* The test stops at the first call that throws.
NextValue ==
    /\ thrown = NoError
    /\ \/ output.op = "none" /\ \E data \in NumberInputs : NewValue(data)
       \/ output.op = "none" /\ \E data \in RowInputs : NewValue(data)
       \/ \E op \in Projections, key \in Keys : Call(op, key)
       \/ \E op \in DomOperations : DomCall(op)

SpecValue == Init /\ [][NextValue]_vars

\* SpecSuite: a Suite whose Scenarios are created with tags, opened, skipped,
\* executed by the Suite, loaded, asserted on and done.
NextSuite ==
    \/ \E tags \in TagLists : SuiteScenario(tags)
    \/ SuiteExecute
    \/ \E i \in DOMAIN scenarios :
          \/ ScenarioOpen(i)
          \/ ScenarioSkip(i)
          \/ RequestLoaded(i)
          \/ RequestFailed(i)
          \/ ScenarioPass(i)
          \/ ScenarioFail(i)
          \/ ScenarioDone(i)

SpecSuite == Init /\ [][NextSuite]_vars

\* SpecSuiteFair: the same Suite; a call or a callback that can be made is
\* made at some time.
SpecSuiteFair == SpecSuite /\ WF_vars(NextSuite)

\* --------------------------------------------------- reading the history
Idx(ev) == {i \in DOMAIN trace : trace[i].ev = ev}
Comments(text) == {i \in Idx("comment") : trace[i].text = text}
Precede(A, B) == \A a \in A, b \in B : a < b
\* every callback of the list has been invoked exactly once
RanOnce(ev, list) ==
    \A k \in 1..Len(list) : Cardinality({i \in Idx(ev) : trace[i].id = k}) = 1
HasFailure(message) ==
    \E i \in DOMAIN log : log[i] = Item("resultFailure", message)
SkipComments == Comments("Skipped") \cup Comments("Skipped: label")
DurationComments == Comments("Took")
FailedAssertions == {i \in Idx("resultFailure") : trace[i].text = "assertion"}
ExecutionErrors == Idx("fetchFailed") \cup Idx("pipeThrow")
                   \cup Idx("phaseThrow") \cup Idx("phaseTimeout")
\* the number of phases mapSeries was given, and the number it has invoked
PhasesGiven == IF Idx("phases") = {} THEN 0
               ELSE trace[CHOOSE i \in Idx("phases") : TRUE].id
PhasesInvoked == Cardinality(Idx("phase"))

\* ------------------------------------------------------------------- C1
\* C1: once execution has started, a call of execute() throws the "already
\* started" error and changes nothing: no hook list, fetch or phase is
\* started again, no callback is invoked, nothing is logged.
C1_SecondExecuteFails ==
    [][\A p \in PathParams :
          (hasExecuted /\ execute(p)) =>
             /\ thrown' = AlreadyExecuting
             /\ UNCHANGED <<config, times, nextCallbacks, hooks, log,
                            finishedResolved, runner, work, trace>>]_vars

C1_Witness ==
    /\ thrown = AlreadyExecuting
    /\ mode = "execute"
    /\ stage = "phase"
    /\ Idx("before") # {}
    /\ Idx("fetch") # {}

\* ------------------------------------------------------------------- C2
\* C2: whenever a phase callback other than the first is invoked, the value
\* returned by the previous phase has settled, no assertion it started is
\* unresolved and no sub-scenario it spawned is unfinished.
C2_PhasesDoNotOverlap ==
    [][(Idx("phase") # {} /\ PhasesInvoked' > PhasesInvoked) =>
          (~retPending /\ assertionsPending = 0 /\ subsPending = 0)]_vars

C2_Witness ==
    \E i, j \in Idx("phase"), k \in DOMAIN trace :
        /\ i < k
        /\ k < j
        /\ trace[k].text = "assertion"
        /\ subsPending > 0

\* ------------------------------------------------------------------- C3
\* C3: whatever calls are made and whenever, the fetch adapter is handed the
\* request at most once.
C3_FetchAtMostOnce == Cardinality(Idx("fetch")) <= 1

C3_Witness ==
    /\ Cardinality(Idx("fetch")) = 1
    /\ stage = "done"
    /\ thrown = CanNotSkip

\* ------------------------------------------------------------------- C4
\* C4: a skipped Scenario invokes its before hooks, then logs one skip
\* comment, then invokes its after hooks, then its finally hooks; it logs no
\* second skip comment, invokes no pipe hook, phase, success or failure
\* hook, and never dispatches a fetch, also when execute is called later.
C4_SkipSequence ==
    (mode = "skip" \/ SkipComments # {}) =>
        /\ Idx("fetch") = {}
        /\ ~hasRequestStarted
        /\ Idx("pipe") = {}
        /\ Idx("phase") = {}
        /\ Idx("success") = {}
        /\ Idx("failure") = {}
        /\ Cardinality(SkipComments) <= 1
        /\ Precede(Idx("before"), SkipComments)
        /\ Precede(SkipComments, Idx("after"))
        /\ Precede(Idx("after"), Idx("finally"))
        /\ stage \in {"after", "finally", "done"} =>
              /\ Cardinality(SkipComments) = 1
              /\ RanOnce("before", beforeCallbacks)
        /\ stage \in {"finally", "done"} => RanOnce("after", afterCallbacks)
        /\ stage = "done" => RanOnce("finally", finallyCallbacks)

C4_Witness ==
    /\ mode = "skip"
    /\ stage = "done"
    /\ thrown = AlreadyExecuting
    /\ Comments("Skipped: label") # {}
    /\ Idx("before") # {}
    /\ Idx("after") # {}
    /\ Idx("finally") # {}
    /\ url # Null
    /\ hasNextCallbacks

\* ------------------------------------------------------------------- C5
\* C5: after a phase timeout the completion has begun, no phase callback is
\* invoked any more, the success hooks are not run, and once the after hooks
\* are through the log holds the failing entry of the timeout (hasFailed);
\* the failure hooks run.
C5_PhaseTimeoutFails ==
    \A t \in Idx("phaseTimeout") :
        /\ hasFinished
        /\ \A i \in Idx("phase") : i < t
        /\ stage \notin {"phase", "success"}
        /\ Idx("success") = {}
        /\ stage \in {"failure", "finally", "done"} =>
              (hasFailed /\ HasFailure(TimeoutError))
        /\ stage = "done" => RanOnce("failure", failureCallbacks)

C5_Witness ==
    /\ Idx("phaseTimeout") # {}
    /\ stage = "done"
    /\ PhasesGiven = 2
    /\ PhasesInvoked = 1
    /\ Idx("failure") # {}
    /\ hasFailed

\* ------------------------------------------------------------------- C6
\* C6: after a phase callback has thrown a message, no phase callback is
\* invoked any more, the success hooks are not run, the failure hooks run,
\* the log holds a failing entry, and the thrown message is logged as a
\* comment after the failure hooks.
C6_PhaseThrowFails ==
    \A t \in Idx("phaseThrow") :
        Truthy(trace[t].text) =>
            /\ hasFinished
            /\ \A i \in Idx("phase") : i < t
            /\ stage \notin {"phase", "success"}
            /\ Idx("success") = {}
            /\ stage \in {"failure", "finally", "done"} =>
                  (hasFailed /\ HasFailure(trace[t].text))
            /\ stage \in {"finally", "done"} =>
                  /\ Cardinality(Comments(trace[t].text)) = 1
                  /\ Precede(Idx("failure"), Comments(trace[t].text))
                  /\ RanOnce("failure", failureCallbacks)

C6_Witness ==
    /\ \E t \in Idx("phaseThrow") : trace[t].text = "phase error"
    /\ stage = "done"
    /\ Comments("phase error") # {}
    /\ Idx("failure") # {}
    /\ PhasesGiven = 2
    /\ PhasesInvoked = 1

\* ------------------------------------------------------------------- C7
\* C7: in an executed Scenario the after hooks come before the duration
\* comment, the duration comment before the success or failure hooks, these
\* before the finally hooks; the success and the failure list are never both
\* run; the success list is run only if the log holds no failing entry and no
\* execution error occurred, the failure list only otherwise.
C7_CompletionOrder ==
    mode = "execute" =>
        /\ Precede(Idx("after"), DurationComments)
        /\ Precede(DurationComments, Idx("success") \cup Idx("failure"))
        /\ Precede(Idx("success") \cup Idx("failure"), Idx("finally"))
        /\ Idx("success") = {} \/ Idx("failure") = {}
        /\ stage \in {"success", "failure", "finally", "done"} =>
              Cardinality(DurationComments) = 1
        /\ stage = "success" => (~hasFailed /\ ExecutionErrors = {})
        /\ stage = "failure" => (hasFailed \/ ExecutionErrors # {})

\* ------------------------------------------------------------------- C8
\* C8: after the fetch adapter has failed, the completion has begun, the one
\* fetch stays the only one, no pipe hook, phase or success hook is invoked,
\* the response is never marked as loaded, the log holds the failing entry
\* once the after hooks are through, and the failure hooks run before the
\* finally hooks.
C8_FetchFailureCompletes ==
    Idx("fetchFailed") # {} =>
        /\ hasFinished
        /\ Cardinality(Idx("fetch")) = 1
        /\ Idx("pipe") = {}
        /\ Idx("phase") = {}
        /\ Idx("success") = {}
        /\ timeRequestLoaded = Null
        /\ stage \in {"after", "failure", "finally", "done", "aborted"}
        /\ stage \in {"failure", "finally", "done"} =>
              (hasFailed /\ HasFailure(FailedToLoad))
        /\ Precede(Idx("failure"), Idx("finally"))
        /\ stage \in {"finally", "done"} =>
              RanOnce("failure", failureCallbacks)
        /\ stage = "done" => RanOnce("finally", finallyCallbacks)

C8_Witness ==
    /\ \E x \in Idx("fetchFailed") : trace[x].text = "no response"
    /\ stage = "done"
    /\ Idx("failure") # {}
    /\ Idx("finally") # {}
    /\ Len(pipeCallbacks) > 0
    /\ hasFailed

\* ------------------------------------------------------------------- C9
\* C9: once a pipe hook has thrown, the Scenario is being completed as for
\* any execution error: its finish time is taken and the error is on its way
\* to the log.
C9_PipeFailureCompletes ==
    Idx("pipeThrow") # {} => (hasFinished /\ errorMessage # Null)

\* ------------------------------------------------------------------ C10
\* C10: with a failing assertion in the log and no phase that threw or timed
\* out, the phases are invoked in their declared order, the completion
\* begins only when every phase given to the run has been invoked, the
\* success hooks are never run and the failure hooks are.
C10_AssertionFailureGoesOn ==
    (FailedAssertions # {} /\ Idx("phaseThrow") \cup Idx("phaseTimeout") = {}) =>
        /\ hasFailed
        /\ \A i, j \in Idx("phase") : i < j => trace[i].id < trace[j].id
        /\ hasFinished => PhasesInvoked = PhasesGiven
        /\ stage # "success"
        /\ Idx("success") = {}
        /\ stage \in {"finally", "done"} => RanOnce("failure", failureCallbacks)

C10_Witness ==
    /\ stage = "done"
    /\ Idx("phaseThrow") \cup Idx("phaseTimeout") = {}
    /\ \E i, j \in Idx("phase"), k \in FailedAssertions : i < k /\ k < j
    /\ Idx("failure") # {}

\* ------------------------------------------------------------------ C11
\* C11: execute() starts the Scenario only with a target that is defined and
\* holds no placeholder and with at least one phase; a call of execute() that
\* does not start it invokes nothing, logs nothing, dispatches nothing and
\* leaves hasExecuted false; a call of execute() that finds (after its own
\* replacements) a complete target and a phase starts the Scenario.
C11_StartsOnlyWhenReady ==
    [][/\ (~hasExecuted /\ hasExecuted') =>
             /\ url' # Null
             /\ ~HasParam(url')
             /\ hasNextCallbacks
       /\ \A p \in TemplateParams :
             (~hasExecuted /\ execute(p)) =>
                IF url' # Null /\ ~HasParam(url') /\ hasNextCallbacks
                THEN hasExecuted' /\ stage' = "before" /\ mode' = "execute"
                ELSE UNCHANGED <<times, nextCallbacks, hooks, log,
                                 finishedResolved, runner, work, trace>>]_vars

\* a first execute() filled one of two placeholders and did not start; a
\* second one filled the other and started the Scenario
C11_Witness ==
    /\ url = BaseUrl \o "/1/1"
    /\ mode = "execute"
    /\ Idx("fetch") # {}
    /\ waitTime > 0

\* ------------------------------------------------------------------ C12
\* C12: a call of execute() on a Scenario with a phase and a target holding
\* placeholders, given the parameter names of the target, leaves no
\* placeholder in the target and starts the Scenario in that call.
C12_ParamsFillEveryPlaceholder ==
    [][\A key \in ParamNames :
          (/\ ~hasExecuted
           /\ hasNextCallbacks
           /\ HasParam(url)
           /\ \A i \in DOMAIN Split(url), k \in ParamNames :
                 Split(url)[i] = Placeholder(k) => k = key
           /\ execute(key)) =>
              (~HasParam(url') /\ hasExecuted')]_vars


\* C13: once the Scenario has finished, every call of next, nextPrepend,
\* before, after, success, failure, finally and pipe fails with an error, and
\* the phase list with its labels and the six hook lists stay as they were.
C13_NoRegistrationAfterFinish ==
    [][hasFinished =>
          /\ nextCallbacks' = nextCallbacks
          /\ hooks' = hooks
          /\ \A args \in ArgLists :
                /\ \A append \in BOOLEAN :
                      nextArgs(args, append) =>
                          thrown' \in {AlreadyFinished, NoCallback}
                /\ \A name \in HookNames :
                      pushArgs(name, args) => thrown' = CanNotAdd(name)]_vars
C13_Witness ==
    /\ stage = "done"
    /\ thrown = CanNotAdd("pipe")
    /\ pipeCallbacks = <<>>
    /\ Len(nextCallbacks) = 1

\* C14: once execute, skip or cancel has started the Scenario, its title and
\* its response type keep their values in every later state, and a call of
\* the title setter or of setResponseType fails with an error.
C14_TitleAndTypeFrozen ==
    [][hasExecuted =>
          /\ title' = title
          /\ responseType' = responseType
          /\ SetTitle("renamed") => thrown' = TitleFrozen
          /\ \A type \in ResponseTypes :
                setResponseType(type) => thrown' = TypeFrozen]_vars
C14_Witness ==
    /\ mode = "cancel"
    /\ thrown = TitleFrozen
    /\ title = "renamed"
    /\ responseType # "html"

\* C15: once execute, skip or cancel has started the Scenario, its target
\* URL has the same value in every later state, and open, mock and an
\* assignment of the URL fail with an error.
C15_TargetFrozen ==
    [][hasExecuted =>
          /\ url' = url
          /\ isMock' = isMock
          /\ \A u \in Targets :
                /\ open(u) => thrown' = OpenFrozen
                /\ mock(u) => thrown' = UrlFrozen
          /\ SetUrl("/1/a", isMock) => thrown' = UrlFrozen]_vars

\* C16: a call of next, before, after, success, failure, finally or pipe
\* that is given several callbacks as separate arguments registers every
\* one of them, in the order of the arguments.
C16_EveryArgumentRegistered ==
    [][\A args \in ArgLists :
          (/\ ~hasFinished
           /\ Len(args) > 1
           /\ \A i \in DOMAIN args : args[i] \in CallbackArgs) =>
              LET Given(list) ==
                      [i \in DOMAIN args |->
                          [id |-> Len(list) + i, message |-> NoMessage,
                           callback |-> args[i]]]
              IN /\ nextArgs(args, TRUE) =>
                       nextCallbacks' = nextCallbacks \o Given(nextCallbacks)
                 /\ \A name \in HookNames :
                       pushArgs(name, args) =>
                           CallbacksOf(name)' =
                               CallbacksOf(name) \o Given(CallbacksOf(name))
      ]_vars

\* C17: a cancelled Scenario invokes its before hooks, then its after hooks,
\* then its finally hooks; it logs no skip comment, invokes no pipe hook,
\* phase, success or failure hook, dispatches no fetch, also when execute or
\* skip is called later, and it is finished from the after hooks on.
C17_CancelSequence ==
    mode = "cancel" =>
        /\ Idx("fetch") = {}
        /\ ~hasRequestStarted
        /\ SkipComments = {}
        /\ Idx("pipe") = {}
        /\ Idx("phase") = {}
        /\ Idx("success") = {}
        /\ Idx("failure") = {}
        /\ Precede(Idx("before"), Idx("after"))
        /\ Precede(Idx("after"), Idx("finally"))
        /\ stage = "before" => Idx("after") = {} /\ Idx("finally") = {}
        /\ stage \in {"after", "finally", "done"} =>
              /\ hasFinished
              /\ RanOnce("before", beforeCallbacks)
        /\ stage \in {"finally", "done"} => RanOnce("after", afterCallbacks)
        /\ stage = "done" =>
              /\ RanOnce("finally", finallyCallbacks)
              /\ finishedResolved
C17_Witness ==
    /\ mode = "cancel"
    /\ stage = "done"
    /\ thrown = CanNotSkip
    /\ Idx("before") # {}
    /\ Idx("after") # {}
    /\ Idx("finally") # {}
    /\ url # Null
    /\ hasNextCallbacks

\* C18: while the Scenario given to waitFor has not completed successfully,
\* the waiting Scenario has not started to execute and has dispatched no
\* fetch, also when its execute is called directly.
C18_WaitsForDependency ==
    dependency = "pending" =>
        /\ ~hasExecuted
        /\ Idx("fetch") = {}

\* C19: the promise of waitForFinished is resolved in every state in which
\* the Scenario has ended, after execute, skip or cancel; when it is resolved
\* the Scenario has been started, every finally hook has been invoked once
\* and has settled.
C19_FinishedWhenEnded ==
    /\ stage = "done" => finishedResolved
    /\ finishedResolved =>
          /\ hasExecuted
          /\ mode \in {"execute", "skip", "cancel"}
          /\ stage = "done"
          /\ runList = finallyCallbacks
          /\ runIdx = Len(finallyCallbacks)
          /\ ~hookRunning
          /\ RanOnce("finally", finallyCallbacks)
C19_Witness ==
    /\ finishedResolved
    /\ mode = "execute"
    /\ hasFailed
    /\ Idx("fetchFailed") # {}
    /\ Idx("finally") # {}
    /\ Idx("failure") # {}

\* C20: a promise obtained from promise() before the finish is settled once
\* the Scenario has ended after execute, skip or cancel: it is resolved if
\* the Scenario passed and rejected otherwise, and never both.
C20_PromiseSettles ==
    LET obtained == \E i \in DOMAIN successCallbacks :
                        successCallbacks[i].callback = "resolve"
        resolved == \E i \in Idx("success") : trace[i].text = "resolve"
        rejected == \E i \in Idx("failure") : trace[i].text = "reject"
    IN obtained =>
          /\ ~(resolved /\ rejected)
          /\ stage = "done" => IF hasPassed THEN resolved ELSE rejected

C22_SuiteDoneAndPassed ==
    /\ SuiteIsDone <=>
          \A i \in DOMAIN scenarios :
              scenarios[i].state \in {"Skipped", "Completed"}
    /\ SuitePassed <=>
          /\ SuiteIsDone
          /\ \A i \in DOMAIN scenarios : ScenarioPassed(scenarios[i])
    /\ SuitePassed => SuiteIsDone
C22_Witness ==
    /\ Len(scenarios) = 2
    /\ SuiteIsDone
    /\ ~SuitePassed
    /\ ScenarioPassed(scenarios[1])
    /\ scenarios[2].state = "Completed"
    /\ SuiteFailed

\* C23: in each of the lists before, after, success, failure and finally the
\* hooks are invoked in the order of their registration and one at a time:
\* a hook is invoked only when the promise of the hook before it has settled.
C23_HooksInOrder ==
    [][(Len(trace') > Len(trace)
        /\ trace'[Len(trace')].ev \in HookStages) =>
          LET hook == trace'[Len(trace')]
          IN /\ ~hookRunning
             /\ hook.id = Cardinality(Idx(hook.ev)) + 1
             /\ hook.id <= Len(CallbacksOf(hook.ev))
             /\ CallbacksOf(hook.ev)[hook.id].id = hook.id]_vars
C23_Witness ==
    /\ stage = "done"
    /\ mode = "execute"
    /\ Len(finallyCallbacks) = 2
    /\ Len(failureCallbacks) = 2
    /\ \E i, j \in Idx("failure") :
          i < j /\ trace[i].id = 1 /\ trace[j].id = 2
    /\ \E i, j \in Idx("finally") :
          i < j /\ trace[i].id = 1 /\ trace[j].id = 2

\* C24: every projection of a Value leaves the data of the source Value as
\* it was before the call, the order of the elements of an array included.
C24_SourceUnchanged ==
    [][output'.op \in Projections => input' = input]_vars

\* C26: count() is the number of elements of the array, and count(key) is
\* the number of the rows whose property key is truthy.
C26_CountsRows ==
    output.op = "count" =>
        output.data = IF output.key = NoKey THEN Len(input.items)
                      ELSE Cardinality({i \in DOMAIN input.items :
                                           input.items[i][output.key] # 0})

C27_HeadingAfterBefore ==
    [][(\E i \in DOMAIN trace' \ DOMAIN trace :
           trace'[i].ev \in {"heading", "fetch"}) =>
       LET Later(ev) == {i \in DOMAIN trace' : trace'[i].ev = ev}
           Published(e) == {i \in Later("publish") : trace'[i].text = e}
       IN /\ ~hookRunning
          /\ \A k \in DOMAIN beforeCallbacks :
                 \E i \in Idx("before") : trace[i].id = k
          /\ Idx("hookThrow") = {}
          /\ Later("heading") # {}
          /\ \A h \in Later("heading"), f \in Later("fetch") : h < f
          /\ \A b \in Later("before"), h \in Later("heading") : b < h
          /\ Published("beforeExecute") # {}
          /\ Published("executionStart") # {}
          /\ \A b \in Published("beforeExecute"),
                e \in Published("executionStart") : b < e]_vars
C27_Witness ==
    /\ Len(beforeCallbacks) = 2
    /\ Cardinality(Idx("before")) = 2
    /\ Idx("heading") # {}
    /\ Idx("fetch") # {}
    /\ \E i \in Idx("publish") : trace[i].text = "executionStart"

\* C28: the pipe hooks are invoked in registration order, each after the
\* one before it has settled; the first receives the response of the
\* adapter, every other one the response the hook before it returned, or
\* the response that hook received when it returned nothing; no phase is
\* invoked before the last pipe hook has settled, and exactly one passing
\* 'Loaded' entry is logged, after the pipes and before every phase entry.
C28_PipesThenLoaded ==
    LET Returns(k) == {j \in Idx("pipeReturn") : trace[j].id = k}
        Invokes(k) == {j \in Idx("pipe") : trace[j].id = k}
        Loaded == {i \in Idx("resultSuccess") : trace[i].text = "Loaded"}
        PhaseEntries == Idx("phases") \cup Idx("phase")
    IN /\ \A i \in Idx("pipe") :
              LET k == trace[i].id
              IN /\ k = Cardinality({j \in Idx("pipe") : j < i}) + 1
                 /\ \A n \in 1..(k - 1) : \E j \in Returns(n) : j < i
                 /\ trace[i].text =
                        IF k = 1 THEN AdapterResponse
                        ELSE LET given == trace[CHOOSE j \in Invokes(k - 1) : TRUE]
                                 back == trace[CHOOSE j \in Returns(k - 1) : TRUE]
                             IN IF Truthy(back.text) THEN back.text
                                ELSE given.text
       /\ \A p \in PhaseEntries, k \in DOMAIN pipeCallbacks :
              \E j \in Returns(k) : j < p
       /\ Cardinality(Loaded) <= 1
       /\ PhaseEntries # {} => Cardinality(Loaded) = 1
       /\ Precede(Idx("pipe") \cup Idx("pipeReturn"), Loaded)
       /\ Precede(Loaded, PhaseEntries)
C28_Witness ==
    /\ Len(pipeCallbacks) = 2
    /\ \E i \in Idx("pipeReturn") : trace[i].id = 1 /\ trace[i].text = Piped(1)
    /\ \E i \in Idx("pipe") : trace[i].id = 2 /\ trace[i].text = Piped(1)
    /\ \E i \in Idx("pipeReturn") :
          trace[i].id = 2 /\ trace[i].text = Undefined
    /\ httpResponse = Piped(1)
    /\ \E i \in Idx("resultSuccess") : trace[i].text = "Loaded"
    /\ Idx("phase") # {}

\* C29: when a callback of the after, success or failure list throws or
\* rejects, the log does not change, no hook of that list or of a later
\* list (finally included) is invoked afterwards, nothing more is logged
\* or published, and waitForFinished is never resolved.
C29_CompletionThrowAborts ==
    /\ [](\A i \in Idx("hookThrow") :
             trace[i].text \in {"after", "success", "failure"} =>
                 /\ stage = "aborted"
                 /\ ~finishedResolved
                 /\ \A j \in DOMAIN trace :
                        j > i => trace[j].ev \notin
                                     HookStages \cup {"publish", "comment",
                                                      "resultFailure",
                                                      "resultSuccess"})
    /\ [][(Len(trace') > Len(trace)
            /\ trace'[Len(trace')].ev = "hookThrow") => log' = log]_vars
C29_Witness ==
    /\ \E i \in Idx("hookThrow") : trace[i].text = "after" /\ trace[i].id = 1
    /\ Len(afterCallbacks) = 2
    /\ Len(finallyCallbacks) > 0
    /\ Cardinality(Idx("after")) = 1
    /\ Idx("finally") = {}
    /\ ~finishedResolved

\* C30: skip() and cancel() called on a Scenario that has started executing,
\* or has been skipped or cancelled, throw their error and change nothing:
\* no hook list is started, the log, the timing marks and the hook lists
\* are as before the call.
C30_LateSkipAndCancelFail ==
    [][/\ (hasExecuted /\ skip(NoMessage)) => thrown' = CanNotSkip
       /\ (hasExecuted /\ cancel) => thrown' = CanNotCancel
       /\ (hasExecuted /\ (skip(NoMessage) \/ cancel)) =>
              UNCHANGED <<config, times, nextCallbacks, hooks, log,
                          finishedResolved, runner, work, trace>>]_vars
C30_Witness ==
    /\ thrown = CanNotSkip
    /\ mode \in {"execute", "cancel"}
    /\ stage = "after"
    /\ hookRunning
    /\ Len(afterCallbacks) = 2

\* C31: a Scenario of index.ts whose request errors or answers with a status
\* outside 200-299 is marked failed and becomes done.
C31_FailedRequestIsDone ==
    \A i \in 1..MaxScenarios :
        (i \in DOMAIN scenarios
            /\ scenarios[i].failures = <<"Failed to load">>)
        ~> (i \in DOMAIN scenarios
               /\ ScenarioFailed(scenarios[i])
               /\ ScenarioIsDone(scenarios[i]))

\* C32: after optional() every assertion that fails before the next
\* selector call is recorded as optional, not only the first one.
C32_OptionalUntilSelector ==
    \A i \in Idx("fail") :
        (\E j \in Idx("optional") :
            j < i /\ \A k \in Idx("select") : k < j \/ k > i)
        => trace[i].id = 1

\* C33: a Scenario that execute() has started finishes at some time, with
\* every finally hook run and waitForFinished resolved, when the adapter
\* answers, the hook and pipe callbacks settle without throwing and every
\* phase settles or reaches its timeout.
C33_StartedFinishes ==
    (hasExecuted /\ mode = "execute")
    ~> (/\ hasFinished
        /\ finishedResolved
        /\ RanOnce("finally", finallyCallbacks))
C33_Witness ==
    /\ mode = "execute"
    /\ hasFinished
    /\ finishedResolved
    /\ finallyCallbacks # <<>>
    /\ RanOnce("finally", finallyCallbacks)
    /\ Idx("phaseTimeout") # {}

\* C34: once hasPassed is true it is true in every later state.
C34_PassIsStable == [][hasPassed => hasPassed']_vars

\* C35: hasFinished is true only when every after hook, every success or
\* failure hook and every finally hook of the Scenario has completed.
C35_FinishedAfterHooks ==
    hasFinished =>
        /\ stage = "done"
        /\ RanOnce("after", afterCallbacks)
        /\ RanOnce("success", successCallbacks)
              \/ RanOnce("failure", failureCallbacks)
        /\ RanOnce("finally", finallyCallbacks)

\* C36 (as stated): a call of execute() that does not start the Scenario
\* leaves the explicit wait flag, the wait time and the target as they were.
C36_IdleExecuteChangesNothing ==
    [][\A p \in TemplateParams :
          (~hasExecuted /\ execute(p) /\ ~hasExecuted') =>
              UNCHANGED <<waitToExecute, waitTime, url>>]_vars

\* C36 (amended): a call of execute() that does not start the Scenario
\* clears the explicit wait flag, records a wait time when the flag was
\* set, and fills the first placeholder of the target that the given
\* parameter names; without a parameter the target stays, and the hook
\* lists, the phases, the log, the timing marks and the position in the
\* lifecycle are as before the call.
C36_IdleExecuteLiftsWait ==
    [][\A p \in TemplateParams :
          (~hasExecuted /\ execute(p) /\ ~hasExecuted') =>
              LET Holes(u) == {i \in DOMAIN Split(u) :
                                 \E key \in ParamNames :
                                    Split(u)[i] = Placeholder(key)}
                  named == url # Null /\ p \in ParamNames
                           /\ \E i \in DOMAIN Split(url) :
                                 Split(url)[i] = Placeholder(p)
              IN /\ ~waitToExecute'
                 /\ waitToExecute => waitTime' > 0
                 /\ ~waitToExecute /\ ~named => waitTime' = waitTime
                 /\ IF named
                    THEN Cardinality(Holes(url')) = Cardinality(Holes(url)) - 1
                    ELSE url' = url
                 /\ UNCHANGED <<isMock, responseType, times, nextCallbacks,
                                hooks, log, finishedResolved, runner, work,
                                trace>>]_vars
C36_Witness ==
    /\ ~hasExecuted
    /\ url = "/1/{id}"
    /\ ~waitToExecute
    /\ waitTime > 0
    /\ hasNextCallbacks

\* C37: a subscriber receives the finished event exactly once, whether the
\* Scenario ends completed, skipped or cancelled, and after afterExecute.
C37_FinishedPublishedOnce ==
    LET Published(e) == {i \in Idx("publish") : trace[i].text = e}
    IN /\ Cardinality(Published("finished")) <= 1
       /\ stage = "done" => Cardinality(Published("finished")) = 1
       /\ Precede(Published("afterExecute"), Published("finished"))

\* C38: in every state the response-loaded mark is set only when the
\* request-started mark is, the request-started and the finished mark only
\* when the execution-started mark is; and a mark that is set stays set.
C38_TimingMarksConsistent ==
    /\ [](/\ timeRequestLoaded # Null => timeRequestStarted # Null
          /\ timeRequestStarted # Null => timeScenarioExecuted # Null
          /\ timeScenarioFinished # Null => timeScenarioExecuted # Null)
    /\ [][/\ timeScenarioExecuted # Null => timeScenarioExecuted' # Null
          /\ timeRequestStarted # Null => timeRequestStarted' # Null
          /\ timeRequestLoaded # Null => timeRequestLoaded' # Null
          /\ timeScenarioFinished # Null => timeScenarioFinished' # Null]_vars
C38_Witness ==
    /\ timeScenarioExecuted # Null
    /\ timeRequestStarted # Null
    /\ timeRequestLoaded # Null
    /\ timeScenarioFinished # Null
    /\ stage = "done"

\* C39: whenever a Suite with at least one Scenario is done, exactly one of
\* passed() and failed() is true, also when Scenarios of it were skipped.
C39_DoneSuitePassedOrFailed ==
    (scenarios # <<>> /\ SuiteIsDone) => (SuitePassed # SuiteFailed)

\* C40: once the waitForFinished promise has resolved the log no longer
\* changes, also when a phase timeout completed the Scenario while work
\* started by that phase was still outstanding.
C40_LogClosedAfterFinished == [][finishedResolved => log' = log]_vars
====
